---- MODULE Spec2Model ----
(***************************************************************************)
(* Model of the DBX Rule Studio rule evaluation engine (lib/evaluator.ts,  *)
(* kept in src/unnamed/part_006): getByPath, checkCondition, buildContext, *)
(* applyEffect, evaluateRules and recommend; and of the rules API          *)
(* (lib/api.ts, kept in src/unnamed/part_007) over the tables of the       *)
(* migration (src/unnamed/part_000).                                       *)
(*                                                                         *)
(* Specifications.                                                         *)
(*  - Spec: one call of evaluateRules, step by step, or a chain of         *)
(*    applyEffect calls, or one evaluation of a condition.                 *)
(*  - RoundTripSpec: a call of evaluateRules followed by a second call on  *)
(*    the profile it returned, with no events.                             *)
(*  - RecommendSpec: one call of recommend.                                *)
(*  - DeterminismSpec: evaluateRules and recommend called twice with the   *)
(*    same arguments, the profile returned being changed in between.       *)
(*  - LifecycleSpec: the rules API called by one session, one call after   *)
(*    the other.                                                           *)
(*  - ApiSpec: the rules API called by two sessions, their statements      *)
(*    interleaved at the database.                                         *)
(*                                                                         *)
(* Representation.                                                         *)
(*  - A JavaScript string is a sequence of one-character strings, so that  *)
(*    toLowerCase, includes, String(n) and Number(s) are computed.  The    *)
(*    alphabet is the letters A-Z and a-z, the digits, the space and the   *)
(*    punctuation marks of ASCII but the grave accent; a text with any     *)
(*    other character (an accented or non-Latin letter, a tab) is outside  *)
(*    the model, and the operators have no value on it.                    *)
(*  - A JavaScript value x is a pair <<t, v>>: x[1] is the type tag, x[2]  *)
(*    the payload (0 for null, undefined and NaN).  Objects are functions  *)
(*    from keys (strings) to values, arrays are sequences of values; an    *)
(*    object whose key order matters has its keys as x[3].                 *)
(*  - A number is an integer ("num"), Infinity or -Infinity ("inf", with   *)
(*    the sign) or NaN ("nan").  A number that is no integer has no value  *)
(*    in the model, but for the weights of recommend, which are counted    *)
(*    in eighths ("eighths") so that the floating-point products and sums  *)
(*    are exact, and the scores it returns, in thousandths ("dec").        *)
(*  - A dotted path "a.b.c" is written as the list of its segments, which  *)
(*    is what path.split('.') returns.                                     *)
(*  - Profiles live in a heap of cells addressed by naturals: a profile    *)
(*    cell refers to its static_data, behavioral, scores and tags cells,   *)
(*    so aliasing between the caller's profile and the engine's working    *)
(*    copy is visible.                                                     *)
(*  - Object keys are drawn from names that are not members of             *)
(*    Object.prototype; inherited properties are not modelled.             *)
(*  - A database row is a record of its columns; a Partial<Rule> is a      *)
(*    record of the properties it has.  Of audit_logs the rows of          *)
(*    entity_type 'RULE' are kept; the products API, which writes the      *)
(*    rows of entity_type 'PRODUCT', is outside the model.                 *)
(***************************************************************************)
EXTENDS Integers, Sequences, FiniteSets, TLC

VARIABLES
    heap,            \* the object heap: a sequence of cells, address = index
    rules,           \* evaluateRules argument: Rule[]
    events,          \* evaluateRules argument: SimulationEvent[]
    initialProfile,  \* evaluateRules argument: address of the caller's profile
    pc,              \* position in evaluateRules / in the driver of a pure function
    currentProfile,  \* evaluateRules local: address of the running profile
    trace,           \* evaluateRules local: TraceEntry[]
    sortedRules,     \* evaluateRules local: [...rules].sort(...)
    eventIdx,        \* index in events of the event being processed (0 before the loop)
    matchingRules,   \* evaluateRules local: sortedRules.filter(...) for the current event
    ruleIdx,         \* number of rules of matchingRules already considered
    context,         \* evaluateRules local: the context built for the last rule considered
    allConditionsMet,\* evaluateRules local: result for the last rule considered
    effectIdx,       \* number of effects of the firing rule already applied
    effectDescriptions, \* evaluateRules local: descriptions collected for the firing rule
    callSnap,        \* history: the caller's profile (by value) when the call was made
    eventSnap,       \* history: the running profile (by value) when the current event began
    checks,          \* history: every rule considered: event index, rule, context, result
    firings,         \* history: for each trace entry, the event index, rule and check it came from
    fx,              \* driver of applyEffect: the chain of applications
    cond,            \* driver of checkCondition/getByPath: the last evaluation
    firstCall,       \* history: the result of the first of two successive evaluateRules calls
    products,        \* recommend argument: Product[]
    recProfile,      \* recommend argument: the profile, by value
    recommendations, \* what recommend returned (empty before the call)
    rulesTable,      \* database table rules: id -> row
    rule_versions,   \* database table rule_versions: the rows in insertion order
    audit_logs,      \* database table audit_logs: the rows of entity_type 'RULE', in insertion order
    calls,           \* for each session, the API call it is in and the call's locals
    started,         \* number of API calls started
    lastStatusOp     \* history: for each rule ever stored, the operation that last wrote its status (deleteRule once the row is gone)

vars == <<heap, rules, events, initialProfile, pc, currentProfile, trace, sortedRules,
          eventIdx, matchingRules, ruleIdx, context, allConditionsMet,
          effectIdx, effectDescriptions, callSnap, eventSnap, checks, firings, fx, cond,
          firstCall, products, recProfile, recommendations,
          rulesTable, rule_versions, audit_logs, calls, started, lastStatusOp>>

\* the database and the API calls in flight
apiVars == <<rulesTable, rule_versions, audit_logs, calls, started, lastStatusOp>>

\* the variables that evaluateRules, applyEffect and checkCondition leave alone
untouched == <<firstCall, products, recProfile, recommendations, apiVars>>

-----------------------------------------------------------------------------
(* Strings *)

UpperCase == <<"A","B","C","D","E","F","G","H","I","J","K","L","M",
               "N","O","P","Q","R","S","T","U","V","W","X","Y","Z">>
LowerCase == <<"a","b","c","d","e","f","g","h","i","j","k","l","m",
               "n","o","p","q","r","s","t","u","v","w","x","y","z">>
Digits == <<"0","1","2","3","4","5","6","7","8","9">>

\* toLowerCase of one character of the alphabet (see Representation): a
\* capital letter gives its small letter, a small letter, a digit, the
\* space and a punctuation mark give themselves.  A character outside the
\* alphabet has no value here.
ToLowerChar(c) ==
    CASE \E i \in 1..Len(UpperCase) : UpperCase[i] = c
            -> LowerCase[CHOOSE i \in 1..Len(UpperCase) : UpperCase[i] = c]
      [] \/ \E i \in 1..Len(LowerCase) : LowerCase[i] = c
         \/ \E i \in 1..Len(Digits) : Digits[i] = c
         \/ c \in {" ", "!", "\"", "#", "$", "%", "&", "'", "(", ")", "*", "+", ",",
                   "-", ".", "/", ":", ";", "<", "=", ">", "?", "@", "[", "\\", "]",
                   "^", "_", "{", "|", "}", "~"}
            -> c

\* String.prototype.toLowerCase: over the alphabet the text keeps its
\* length and every character is lowered by itself
toLowerCase(s) == [i \in 1..Len(s) |-> ToLowerChar(s[i])]

\* String.prototype.includes
includes(s, sub) ==
    \E i \in 0..(Len(s) - Len(sub)) : SubSeq(s, i + 1, i + Len(sub)) = sub

RECURSIVE NatToStr(_)
NatToStr(n) ==
    IF n < Len(Digits) THEN <<Digits[n + 1]>>
    ELSE NatToStr(n \div Len(Digits)) \o <<Digits[(n % Len(Digits)) + 1]>>

\* String(n) / `${n}` of an integer n
IntToStr(n) == IF n < 0 THEN <<"-">> \o NatToStr(-n) ELSE NatToStr(n)

\* the value of character c as a digit of the radix (2, 8, 10 or 16; the
\* letters in either case), or the radix when it is none
DigitVal(c, radix) ==
    IF \E i \in 1..radix :
          c \in <<{"0"}, {"1"}, {"2"}, {"3"}, {"4"}, {"5"}, {"6"}, {"7"}, {"8"}, {"9"},
                  {"a","A"}, {"b","B"}, {"c","C"}, {"d","D"}, {"e","E"}, {"f","F"}>>[i]
    THEN (CHOOSE i \in 1..radix :
             c \in <<{"0"}, {"1"}, {"2"}, {"3"}, {"4"}, {"5"}, {"6"}, {"7"}, {"8"}, {"9"},
                     {"a","A"}, {"b","B"}, {"c","C"}, {"d","D"}, {"e","E"}, {"f","F"}>>[i]) - 1
    ELSE radix

RECURSIVE Trim(_)
Trim(s) ==
    IF s = <<>> THEN s
    ELSE IF Head(s) = " " THEN Trim(Tail(s))
    ELSE IF s[Len(s)] = " " THEN Trim(SubSeq(s, 1, Len(s) - 1))
    ELSE s

RECURSIVE DigitsVal(_, _)
DigitsVal(s, radix) ==
    IF s = <<>> THEN 0
    ELSE DigitsVal(SubSeq(s, 1, Len(s) - 1), radix) * radix + DigitVal(s[Len(s)], radix)

AllDigits(s, radix) == s # <<>> /\ \A i \in 1..Len(s) : DigitVal(s[i], radix) < radix

-----------------------------------------------------------------------------
(* JavaScript values *)

Num(n)    == <<"num", n>>
Str(s)    == <<"str", s>>
Bool(b)   == <<"bool", b>>
Arr(a)    == <<"arr", a>>
Obj(f)    == <<"obj", f>>
Null      == <<"null", 0>>
Undefined == <<"undef", 0>>
NaN       == <<"nan", 0>>
\* Infinity (sign 1) and -Infinity (sign -1)
Infinity(sign) == <<"inf", sign>>

EmptyObj == Obj(<<>>)

\* the position of the first character of t that is in set, Len(t) + 1
\* when there is none
First(t, set) ==
    CHOOSE p \in 1..(Len(t) + 1) :
       /\ \A q \in 1..(p - 1) : t[q] \notin set
       /\ p <= Len(t) => t[p] \in set

\* the number m * 10^k.  One that is no integer has no value here, and one
\* beyond the integers of the model checker stops the evaluation.
Scale(m, k) ==
    IF m = 0 THEN Num(0)
    ELSE IF k >= 0 THEN Num(m * 10 ^ k)
    ELSE CASE m % (10 ^ (0 - k)) = 0 -> Num(m \div (10 ^ (0 - k)))

\* the value of the decimal literal whole.fraction, followed when marked by
\* e or E and the exponent (an optional sign, digits); NaN when the parts
\* do not make a literal.  sign is 1, or -1 for a literal after '-'.
DecimalValue(whole, fraction, marked, exponent, sign) ==
    IF /\ AllDigits(whole \o fraction, 10)
       /\ marked => AllDigits(IF exponent # <<>> /\ Head(exponent) \in {"+", "-"}
                              THEN Tail(exponent) ELSE exponent, 10)
    THEN Scale(sign * DigitsVal(whole \o fraction, 10),
               (IF ~marked THEN 0
                ELSE IF Head(exponent) = "-" THEN 0 - DigitsVal(Tail(exponent), 10)
                ELSE DigitsVal(IF Head(exponent) = "+" THEN Tail(exponent) ELSE exponent, 10))
                  - Len(fraction))
    ELSE NaN

\* StrDecimalLiteral without its sign: Infinity, or digits with at most one
\* point and then an optional exponent part
DecimalLiteral(t, sign) ==
    IF t = <<"I","n","f","i","n","i","t","y">> THEN Infinity(sign)
    ELSE DecimalValue(SubSeq(t, 1, First(t, {".", "e", "E"}) - 1),
                      SubSeq(t, First(t, {"."}) + 1, First(t, {"e", "E"}) - 1),
                      First(t, {"e", "E"}) <= Len(t),
                      SubSeq(t, First(t, {"e", "E"}) + 1, Len(t)),
                      sign)

\* StringNumericLiteral of a trimmed text: "" is 0; 0x, 0o and 0b (either
\* case) with digits of the radix give the value, without a sign; an
\* optional sign goes before a decimal literal; anything else is NaN
Literal(u) ==
    IF u = <<>> THEN Num(0)
    ELSE IF /\ Len(u) > 2 /\ u[1] = "0" /\ u[2] \in {"x", "X", "o", "O", "b", "B"}
            /\ AllDigits(SubSeq(u, 3, Len(u)),
                         IF u[2] \in {"x", "X"} THEN 16 ELSE IF u[2] \in {"o", "O"} THEN 8 ELSE 2)
    THEN Num(DigitsVal(SubSeq(u, 3, Len(u)),
                       IF u[2] \in {"x", "X"} THEN 16 ELSE IF u[2] \in {"o", "O"} THEN 8 ELSE 2))
    ELSE DecimalLiteral(IF Head(u) \in {"+", "-"} THEN Tail(u) ELSE u,
                        IF Head(u) = "-" THEN 0 - 1 ELSE 1)

\* Number(s) of a string of the alphabet: the literal left when the spaces
\* around it are trimmed
StrToNumber(s) == Literal(Trim(s))

RECURSIVE String(_)
RECURSIVE Join(_, _)
\* Array.prototype.join(sep) as String(array) uses it: null and undefined
\* elements contribute the empty string.
Join(a, sep) ==
    IF a = <<>> THEN <<>>
    ELSE LET h == IF Head(a)[1] \in {"null", "undef"} THEN <<>> ELSE String(Head(a))
         IN IF Len(a) = 1 THEN h ELSE h \o sep \o Join(Tail(a), sep)

\* String(x)
String(x) ==
    CASE x[1] = "str"   -> x[2]
      [] x[1] = "num"   -> IntToStr(x[2])
      [] x[1] = "bool"  -> IF x[2] THEN <<"t","r","u","e">> ELSE <<"f","a","l","s","e">>
      [] x[1] = "null"  -> <<"n","u","l","l">>
      [] x[1] = "undef" -> <<"u","n","d","e","f","i","n","e","d">>
      [] x[1] = "nan"   -> <<"N","a","N">>
      [] x[1] = "inf"   -> IF x[2] < 0 THEN <<"-","I","n","f","i","n","i","t","y">>
                           ELSE <<"I","n","f","i","n","i","t","y">>
      [] x[1] = "arr"   -> Join(x[2], <<",">>)
      [] x[1] = "obj"   -> <<"[","o","b","j","e","c","t"," ","O","b","j","e","c","t","]">>

\* Number(x)
Number(x) ==
    CASE x[1] = "num"   -> x
      [] x[1] \in {"str", "arr"} -> StrToNumber(String(x))
      [] x[1] = "bool"  -> IF x[2] THEN Num(1) ELSE Num(0)
      [] x[1] = "null"  -> Num(0)
      [] x[1] = "undef" -> NaN
      [] x[1] = "nan"   -> NaN
      [] x[1] = "inf"   -> x
      [] x[1] = "obj"   -> NaN

\* a > b and a >= b on numbers (a < b is b > a, a <= b is b >= a): false
\* when either side is NaN; Infinity is above and -Infinity below every
\* other number
NumGT(a, b) ==
    /\ a[1] # "nan" /\ b[1] # "nan"
    /\ IF a[1] = "inf" \/ b[1] = "inf"
       THEN (IF a[1] = "inf" THEN a[2] ELSE 0) > (IF b[1] = "inf" THEN b[2] ELSE 0)
       ELSE a[2] > b[2]
NumGE(a, b) ==
    /\ a[1] # "nan" /\ b[1] # "nan"
    /\ IF a[1] = "inf" \/ b[1] = "inf"
       THEN (IF a[1] = "inf" THEN a[2] ELSE 0) >= (IF b[1] = "inf" THEN b[2] ELSE 0)
       ELSE a[2] >= b[2]

\* JavaScript truthiness
Truthy(x) ==
    CASE x[1] = "str"  -> x[2] # <<>>
      [] x[1] = "num"  -> x[2] # 0
      [] x[1] = "bool" -> x[2]
      [] x[1] \in {"null", "undef", "nan"} -> FALSE
      [] x[1] \in {"arr", "obj", "inf"} -> TRUE

-----------------------------------------------------------------------------
(* getByPath, checkCondition *)

\* obj[part] for an own property of an object or an array
Prop(cur, part) ==
    IF cur[1] = "obj"
    THEN IF part \in DOMAIN cur[2] THEN cur[2][part] ELSE Undefined
    ELSE \* an array: an index in range, or length
         IF part = <<"l","e","n","g","t","h">> THEN Num(Len(cur[2]))
         ELSE IF \E i \in 1..Len(cur[2]) : IntToStr(i - 1) = part
              THEN cur[2][CHOOSE i \in 1..Len(cur[2]) : IntToStr(i - 1) = part]
              ELSE Undefined

RECURSIVE WalkPath(_, _)
WalkPath(current, parts) ==
    IF parts = <<>> THEN current
    ELSE IF current[1] \in {"null", "undef"} THEN Undefined
    ELSE IF current[1] \notin {"obj", "arr"} THEN Undefined
    ELSE WalkPath(Prop(current, Head(parts)), Tail(parts))

getByPath(obj, path) == WalkPath(obj, path)

\* Array.prototype.some over targetValue in the 'in' case
InList(list, sourceValue) ==
    \E i \in 1..Len(list) :
        toLowerCase(String(list[i])) = toLowerCase(String(sourceValue))

\* mutant: checkCondition without the test for an undefined or null source
checkCondition_NoGuard(sourceValue, op, targetValue) ==
    CASE op = ">"  -> NumGT(Number(sourceValue), Number(targetValue))
      [] op = "<"  -> NumGT(Number(targetValue), Number(sourceValue))
      [] op = ">=" -> NumGE(Number(sourceValue), Number(targetValue))
      [] op = "<=" -> NumGE(Number(targetValue), Number(sourceValue))
      [] op = "="  -> toLowerCase(String(sourceValue)) = toLowerCase(String(targetValue))
      [] op = "contains" -> includes(toLowerCase(String(sourceValue)),
                                     toLowerCase(String(targetValue)))
      [] op = "in" -> IF targetValue[1] = "arr"
                      THEN InList(targetValue[2], sourceValue)
                      ELSE FALSE
      [] OTHER -> FALSE

\* mutant: 'in' with a target that is no array tests whether the text of the
\* target contains the text of the source
checkCondition_InText(sourceValue, op, targetValue) ==
    IF sourceValue[1] \in {"undef", "null"} THEN FALSE
    ELSE IF op = "in" /\ targetValue[1] # "arr"
         THEN includes(toLowerCase(String(targetValue)), toLowerCase(String(sourceValue)))
         ELSE checkCondition_NoGuard(sourceValue, op, targetValue)

checkCondition(sourceValue, op, targetValue) ==
    IF sourceValue[1] \in {"undef", "null"} THEN FALSE
    ELSE CASE op = ">"  -> NumGT(Number(sourceValue), Number(targetValue))
           [] op = "<"  -> NumGT(Number(targetValue), Number(sourceValue))
           [] op = ">=" -> NumGE(Number(sourceValue), Number(targetValue))
           [] op = "<=" -> NumGE(Number(targetValue), Number(sourceValue))
           [] op = "="  -> toLowerCase(String(sourceValue))
                             = toLowerCase(String(targetValue))
           [] op = "contains" -> includes(toLowerCase(String(sourceValue)),
                                          toLowerCase(String(targetValue)))
           [] op = "in" -> IF targetValue[1] = "arr"
                           THEN InList(targetValue[2], sourceValue)
                           ELSE FALSE
           [] OTHER -> FALSE

-----------------------------------------------------------------------------
(* The heap, profiles, JSON.parse(JSON.stringify(x)) *)

RECURSIVE JsonValue(_)
\* JSON.parse(JSON.stringify(v)) of a value: NaN and Infinity become null, an undefined
\* array element becomes null, an undefined property is dropped.
JsonValue(v) ==
    CASE v[1] \in {"nan", "inf"} -> Null
      [] v[1] = "arr" ->
            Arr([i \in 1..Len(v[2]) |->
                    IF v[2][i][1] = "undef" THEN Null ELSE JsonValue(v[2][i])])
      [] v[1] = "obj" ->
            Obj([k \in {j \in DOMAIN v[2] : v[2][j][1] # "undef"} |-> JsonValue(v[2][k])])
      [] OTHER -> v

\* a profile object by value: what its cells hold
Deref(h, a) ==
    [customer_id  |-> h[a].customer_id,
     static_data  |-> h[h[a].static_data],
     behavioral   |-> h[h[a].behavioral],
     scores       |-> h[h[a].scores],
     tags         |-> h[h[a].tags],
     last_updated |-> h[a].last_updated]

\* the addresses a profile object occupies
Cells(h, a) == {a, h[a].static_data, h[a].behavioral, h[a].scores, h[a].tags}

\* mutant: a shallow copy ({ ...profile }): a fresh profile cell that shares
\* the static_data, behavioral, scores and tags cells
JsonClone_Shallow(h, a) == [heap |-> Append(h, h[a]), addr |-> Len(h) + 1]

\* mutant: a copy that does not carry the tags over
JsonClone_EmptyTags(h, a) ==
    LET n == Len(h)
        p == h[a]
    IN [heap |-> h \o << JsonValue(h[p.static_data]),
                         JsonValue(h[p.behavioral]),
                         JsonValue(h[p.scores]),
                         Arr(<<>>),
                         [customer_id  |-> p.customer_id,
                          static_data  |-> n + 1,
                          behavioral   |-> n + 2,
                          scores       |-> n + 3,
                          tags         |-> n + 4,
                          last_updated |-> p.last_updated] >>,
        addr |-> n + 5]

\* JSON.parse(JSON.stringify(profile)) as Profile: five fresh cells
JsonClone(h, a) ==
    LET n == Len(h)
        p == h[a]
    IN [heap |-> h \o << JsonValue(h[p.static_data]),
                         JsonValue(h[p.behavioral]),
                         JsonValue(h[p.scores]),
                         JsonValue(h[p.tags]),
                         [customer_id  |-> p.customer_id,
                          static_data  |-> n + 1,
                          behavioral   |-> n + 2,
                          scores       |-> n + 3,
                          tags         |-> n + 4,
                          last_updated |-> p.last_updated] >>,
        addr |-> n + 5]

-----------------------------------------------------------------------------
(* buildContext *)

K_event      == <<"e","v","e","n","t">>
K_profile    == <<"p","r","o","f","i","l","e">>
K_static     == <<"s","t","a","t","i","c">>
K_behavioral == <<"b","e","h","a","v","i","o","r","a","l">>
K_scores     == <<"s","c","o","r","e","s">>
K_tags       == <<"t","a","g","s">>

\* mutant: the context built from the profile the call was given (the
\* caller's, at the first address after it was laid out) instead of the
\* running one
buildContext_Initial(h, profile, event) ==
    Obj( (K_event :> event.payload) @@
         (K_profile :> Obj( (K_static     :> h[1]) @@
                            (K_behavioral :> h[2]) @@
                            (K_scores     :> h[3]) @@
                            (K_tags       :> h[4]) )) )

buildContext(h, profile, event) ==
    Obj( (K_event :> event.payload) @@
         (K_profile :> Obj( (K_static     :> h[h[profile].static_data]) @@
                            (K_behavioral :> h[h[profile].behavioral]) @@
                            (K_scores     :> h[h[profile].scores]) @@
                            (K_tags       :> h[h[profile].tags]) )) )

-----------------------------------------------------------------------------
(* applyEffect *)

\* a === b on primitive values (NaN is not equal to itself)
StrictEquals(a, b) == a[1] = b[1] /\ a[1] # "nan" /\ a[2] = b[2]

\* Array.prototype.includes (SameValueZero) on an array of primitives
ArrayIncludes(a, x) == \E i \in 1..Len(a) : a[i][1] = x[1] /\ a[i][2] = x[2]

\* Array.prototype.indexOf, 0-based; -1 when absent
IndexOf(a, x) ==
    IF \E i \in 1..Len(a) : StrictEquals(a[i], x)
    THEN (CHOOSE i \in 1..Len(a) :
             /\ StrictEquals(a[i], x)
             /\ \A j \in 1..(i - 1) : ~StrictEquals(a[j], x)) - 1
    ELSE 0 - 1

\* Array.prototype.splice(idx, 1), idx 0-based
Splice1(a, idx) == SubSeq(a, 1, idx) \o SubSeq(a, idx + 2, Len(a))

\* the sum of two numbers: NaN on either side and Infinity + -Infinity
\* give NaN
Add(x, y) ==
    IF x[1] = "nan" \/ y[1] = "nan" THEN NaN
    ELSE IF x[1] = "inf" THEN (IF y[1] = "inf" /\ y[2] # x[2] THEN NaN ELSE x)
    ELSE IF y[1] = "inf" THEN y
    ELSE Num(x[2] + y[2])

\* a + b: an array or object counts as its text; with a text on either
\* side the texts are joined; otherwise the numbers are added (null counts
\* as 0, undefined as NaN)
Plus(a, b) ==
    IF a[1] \in {"str", "arr", "obj"} \/ b[1] \in {"str", "arr", "obj"}
    THEN Str(String(a) \o String(b))
    ELSE Add(Number(a), Number(b))

\* the description template of scoreDelta; "->" stands for its arrow U+2192
ScoreDescription(score, delta, currentScore, newScore) ==
    LET sign == IF NumGE(Number(delta), Num(0)) THEN <<"+">> ELSE <<>>
    IN String(score) \o <<" ">> \o sign \o String(delta) \o <<" ", "(">>
         \o String(currentScore) \o <<" ", "-", ">", " ">>
         \o String(newScore) \o <<")">>

AddedDescription(tag) ==
    <<"A","d","d","e","d"," ","t","a","g"," ","\"">> \o String(tag) \o <<"\"">>

RemovedDescription(tag) ==
    <<"R","e","m","o","v","e","d"," ","t","a","g"," ","\"">> \o String(tag) \o <<"\"">>

\* mutant: the new score clamped to 0..100
ApplyScoreDelta_Clamped(h, np, effect) ==
    IF Truthy(effect.score) /\ effect.delta[1] # "undef"
    THEN LET sa == h[np].scores
             old == Prop(h[sa], effect.score[2])
             currentScore == IF Truthy(old) THEN old ELSE Num(0)
             sum == Plus(currentScore, effect.delta)
             newScore == IF sum[2] < 0 THEN Num(0)
                         ELSE IF sum[2] > 100 THEN Num(100) ELSE sum
         IN [heap |-> [h EXCEPT ![sa] = Obj((effect.score[2] :> newScore) @@ h[sa][2])],
             profile |-> np,
             description |-> ScoreDescription(effect.score, effect.delta,
                                              currentScore, newScore)]
    ELSE [heap |-> h, profile |-> np, description |-> <<>>]

\* mutant: scoreDelta without the test that delta is given: the sum with
\* undefined is NaN
ApplyScoreDelta_NoDeltaTest(h, np, effect) ==
    IF Truthy(effect.score)
    THEN LET sa == h[np].scores
             old == Prop(h[sa], effect.score[2])
             currentScore == IF Truthy(old) THEN old ELSE Num(0)
             newScore == IF effect.delta[1] = "undef" THEN NaN
                         ELSE Plus(currentScore, effect.delta)
         IN [heap |-> [h EXCEPT ![sa] = Obj((effect.score[2] :> newScore) @@ h[sa][2])],
             profile |-> np,
             description |-> ScoreDescription(effect.score, effect.delta,
                                              currentScore, newScore)]
    ELSE [heap |-> h, profile |-> np, description |-> <<>>]

\* mutant: scoreDelta also counts the update in behavioral
ApplyScoreDelta_CountsInBehavioral(h, np, effect) ==
    IF Truthy(effect.score) /\ effect.delta[1] # "undef"
    THEN LET sa == h[np].scores
             ba == h[np].behavioral
             old == Prop(h[sa], effect.score[2])
             currentScore == IF Truthy(old) THEN old ELSE Num(0)
             newScore == Plus(currentScore, effect.delta)
         IN [heap |-> [h EXCEPT ![sa] = Obj((effect.score[2] :> newScore) @@ h[sa][2]),
                                ![ba] = Obj((effect.score[2] :> newScore) @@ h[ba][2])],
             profile |-> np,
             description |-> ScoreDescription(effect.score, effect.delta,
                                              currentScore, newScore)]
    ELSE [heap |-> h, profile |-> np, description |-> <<>>]

\* mutant: scoreDelta assigns the delta instead of adding it
ApplyScoreDelta_Assigns(h, np, effect) ==
    IF Truthy(effect.score) /\ effect.delta[1] # "undef"
    THEN LET sa == h[np].scores
             old == Prop(h[sa], effect.score[2])
             currentScore == IF Truthy(old) THEN old ELSE Num(0)
             newScore == Plus(Num(0), effect.delta)
         IN [heap |-> [h EXCEPT ![sa] = Obj((effect.score[2] :> newScore) @@ h[sa][2])],
             profile |-> np,
             description |-> ScoreDescription(effect.score, effect.delta,
                                              currentScore, newScore)]
    ELSE [heap |-> h, profile |-> np, description |-> <<>>]

\* the body of the scoreDelta case, on the heap after the clone
ApplyScoreDelta(h, np, effect) ==
    IF Truthy(effect.score) /\ effect.delta[1] # "undef"
    THEN LET sa == h[np].scores
             old == Prop(h[sa], effect.score[2])
             currentScore == IF Truthy(old) THEN old ELSE Num(0)
             newScore == Plus(currentScore, effect.delta)
         IN [heap |-> [h EXCEPT ![sa] = Obj((effect.score[2] :> newScore) @@ h[sa][2])],
             profile |-> np,
             description |-> ScoreDescription(effect.score, effect.delta,
                                              currentScore, newScore)]
    ELSE [heap |-> h, profile |-> np, description |-> <<>>]

\* mutant: addTag without the test that the tag is absent
ApplyAddTag_NoDedup(h, np, effect) ==
    LET ta == h[np].tags IN
    IF Truthy(effect.tag)
    THEN [heap |-> [h EXCEPT ![ta] = Arr(Append(h[ta][2], effect.tag))],
          profile |-> np,
          description |-> AddedDescription(effect.tag)]
    ELSE [heap |-> h, profile |-> np, description |-> <<>>]

\* the body of the addTag case
ApplyAddTag(h, np, effect) ==
    LET ta == h[np].tags IN
    IF Truthy(effect.tag) /\ ~ArrayIncludes(h[ta][2], effect.tag)
    THEN [heap |-> [h EXCEPT ![ta] = Arr(Append(h[ta][2], effect.tag))],
          profile |-> np,
          description |-> AddedDescription(effect.tag)]
    ELSE [heap |-> h, profile |-> np, description |-> <<>>]

\* mutant: removeTag without the test idx >= 0: splice(-1, 1) takes out the
\* last tag
ApplyRemoveTag_NoIndexTest(h, np, effect) ==
    LET ta == h[np].tags
        idx == IndexOf(h[ta][2], effect.tag)
        at == IF idx >= 0 THEN idx ELSE Len(h[ta][2]) - 1
    IN IF Truthy(effect.tag)
       THEN [heap |-> [h EXCEPT ![ta] = Arr(Splice1(h[ta][2], at))],
             profile |-> np,
             description |-> RemovedDescription(effect.tag)]
       ELSE [heap |-> h, profile |-> np, description |-> <<>>]

\* mutant: removeTag that reports the removal whether or not the tag was
\* there
ApplyRemoveTag_AlwaysDescribes(h, np, effect) ==
    LET ta == h[np].tags
        idx == IndexOf(h[ta][2], effect.tag)
    IN IF Truthy(effect.tag)
       THEN [heap |-> IF idx >= 0
                      THEN [h EXCEPT ![ta] = Arr(Splice1(h[ta][2], idx))]
                      ELSE h,
             profile |-> np,
             description |-> RemovedDescription(effect.tag)]
       ELSE [heap |-> h, profile |-> np, description |-> <<>>]

\* the body of the removeTag case
ApplyRemoveTag(h, np, effect) ==
    LET ta == h[np].tags
        idx == IndexOf(h[ta][2], effect.tag)
    IN IF Truthy(effect.tag) /\ idx >= 0
       THEN [heap |-> [h EXCEPT ![ta] = Arr(Splice1(h[ta][2], idx))],
             profile |-> np,
             description |-> RemovedDescription(effect.tag)]
       ELSE [heap |-> h, profile |-> np, description |-> <<>>]

\* applyEffect(profile, effect): the heap after the call, the address of the
\* returned profile and the description
applyEffect(h, profile, effect) ==
    LET c == JsonClone(h, profile) IN
    CASE effect.type = "scoreDelta" -> ApplyScoreDelta(c.heap, c.addr, effect)
      [] effect.type = "addTag"     -> ApplyAddTag(c.heap, c.addr, effect)
      [] effect.type = "removeTag"  -> ApplyRemoveTag(c.heap, c.addr, effect)
      [] OTHER -> [heap |-> c.heap, profile |-> c.addr, description |-> <<>>]

-----------------------------------------------------------------------------
(* evaluateRules: helpers *)

\* mutant: the comparator with its operands swapped (ascending priority)
ComparePriority_Ascending(a, b) == a.priority - b.priority

\* the comparator (a, b) => b.priority - a.priority
ComparePriority(a, b) == b.priority - a.priority

RECURSIVE InsertStable(_, _)
\* r goes after every element that does not compare greater than it
InsertStable(r, s) ==
    IF s = <<>> THEN <<r>>
    ELSE IF ComparePriority(s[Len(s)], r) <= 0 THEN Append(s, r)
    ELSE Append(InsertStable(r, SubSeq(s, 1, Len(s) - 1)), s[Len(s)])

RECURSIVE SortRules(_)
\* [...rules].sort(comparator): Array.prototype.sort is stable
SortRules(rs) ==
    IF rs = <<>> THEN <<>>
    ELSE InsertStable(rs[Len(rs)], SortRules(SubSeq(rs, 1, Len(rs) - 1)))

\* mutant: the events taken last to first
EventAt_Reversed(evs, i) == evs[Len(evs) + 1 - i]

\* for (const event of events): the event of the i-th iteration
EventAt(evs, i) == evs[i]

\* mutant: the filter without the test of the event type
Matches_AnyEvent(r, event) == r.status = "ACTIVE"

\* mutant: the filter without the test of the status
Matches_AnyStatus(r, event) == r.event = event.type

\* the filter predicate r => r.status === 'ACTIVE' && r.event === event.type
Matches(r, event) == r.status = "ACTIVE" /\ r.event = event.type

RECURSIVE Filter(_, _)
Filter(rs, event) ==
    IF rs = <<>> THEN <<>>
    ELSE IF Matches(Head(rs), event) THEN <<Head(rs)>> \o Filter(Tail(rs), event)
    ELSE Filter(Tail(rs), event)

ConditionHolds(condition, ctx) ==
    checkCondition(getByPath(ctx, condition.source), condition.op, condition.value)

RECURSIVE Every_Some(_, _)
\* mutant: conditions.some(...) in place of conditions.every(...)
Every_Some(conditions, ctx) ==
    IF conditions = <<>> THEN FALSE
    ELSE IF ConditionHolds(Head(conditions), ctx) THEN TRUE
    ELSE Every_Some(Tail(conditions), ctx)

RECURSIVE Every(_, _)
\* rule.conditions.every(...), left to right
Every(conditions, ctx) ==
    IF conditions = <<>> THEN TRUE
    ELSE IF ~ConditionHolds(Head(conditions), ctx) THEN FALSE
    ELSE Every(Tail(conditions), ctx)

\* mutant: every description is pushed, the empty ones too
PushDescription_Always(descriptions, description) == Append(descriptions, description)

\* if (result.description) effectDescriptions.push(result.description)
PushDescription(descriptions, description) ==
    IF description # <<>> THEN Append(descriptions, description) ELSE descriptions

\* effectDescriptions.join('; ')
RECURSIVE JoinDescriptions(_)
JoinDescriptions(ds) ==
    IF ds = <<>> THEN <<>>
    ELSE IF Len(ds) = 1 THEN ds[1]
    ELSE ds[1] \o <<";", " ">> \o JoinDescriptions(Tail(ds))


-----------------------------------------------------------------------------
(* recommend                                                               *)
(*                                                                         *)
(* The maps of a product (required_scores, weight_by_score) and the        *)
(* scoreBreakdown are objects with their own-key order, which is what      *)
(* Object.entries follows.  Profile scores and thresholds are integers.    *)
(* A weight is a number of eighths, Eighths(n) = n / 8, so that a weight,  *)
(* its product with a score and the sum of such products are exact in      *)
(* binary floating point and the rounding of the sum is the rounding of    *)
(* its exact value; a weight that has no finite binary expansion (1.005)   *)
(* has no value in the model.  A ranking score is a decimal counted in     *)
(* thousandths: Dec(62380) is 62.38.                                       *)

\* an object with the insertion order of its keys
OrderedObj(keys, f) == <<"obj", f, keys>>

\* the decimal m / 1000
Dec(m) == <<"dec", m>>

\* the number n / 8
Eighths(n) == <<"eighths", n>>

\* Object.entries(o)
ObjectEntries(o) == [i \in 1..Len(o[3]) |-> [key |-> o[3][i], value |-> o[2][o[3][i]]]]

\* o[k] = x on an object with key order
ObjectSet(o, k, x) ==
    IF k \in DOMAIN o[2]
    THEN OrderedObj(o[3], [o[2] EXCEPT ![k] = x])
    ELSE OrderedObj(Append(o[3], k), (k :> x) @@ o[2])

\* mutant: no product is skipped
Skipped_Never(product) == FALSE

\* if (!product.active) continue
Skipped(product) == ~product.active

\* product.exclusions || []
ExclusionsOf(product) ==
    IF Truthy(product.exclusions) THEN product.exclusions[2] ELSE <<>>

\* product.required_scores || {}, product.weight_by_score || {}
MapOrEmpty(m) == IF Truthy(m) THEN m ELSE OrderedObj(<<>>, <<>>)

\* exclusions.some(tag => profile.tags.includes(tag))
HasExclusion(exclusions, profile) ==
    \E i \in 1..Len(exclusions) : ArrayIncludes(profile.tags[2], exclusions[i])

\* mutant: the matching tag that comes first in the profile's tags
MatchedExclusion_ProfileOrder(exclusions, profile) ==
    profile.tags[2][CHOOSE i \in 1..Len(profile.tags[2]) :
                      /\ ArrayIncludes(exclusions, profile.tags[2][i])
                      /\ \A j \in 1..(i - 1) : ~ArrayIncludes(exclusions, profile.tags[2][j])]

\* exclusions.find(tag => profile.tags.includes(tag)), when there is one
MatchedExclusion(exclusions, profile) ==
    exclusions[CHOOSE i \in 1..Len(exclusions) :
                  /\ ArrayIncludes(profile.tags[2], exclusions[i])
                  /\ \A j \in 1..(i - 1) : ~ArrayIncludes(profile.tags[2], exclusions[j])]

\* `Excluded: customer has "${matchedExclusion}" tag`
ExcludedLine(tag) ==
    <<"E","x","c","l","u","d","e","d",":"," ","c","u","s","t","o","m","e","r"," ","h","a","s"," ","\"">> \o String(tag) \o <<"\""," ","t","a","g">>


\* the pass line: mark, name, observed score, sign, threshold; "[v]" stands
\* for the check mark U+2713 and ">=" for the sign U+2265
PassLine(scoreName, profileScore, threshold) ==
    <<"[","v","]"," ">> \o scoreName \o <<":"," ">> \o String(profileScore)
       \o <<" ",">","="," ">> \o String(threshold)

\* the fail line: mark, name, observed score, "<", threshold, "required";
\* "[x]" stands for the ballot x U+2717
FailLine(scoreName, profileScore, threshold) ==
    <<"[","x","]"," ">> \o scoreName \o <<":"," ">> \o String(profileScore)
       \o <<" ","<"," ">> \o String(threshold) \o <<" ","r","e","q","u","i","r","e","d">>

\* profile.scores[scoreName] || 0
ProfileScore(profile, scoreName) ==
    LET s == Prop(profile.scores, scoreName) IN IF Truthy(s) THEN s ELSE Num(0)

\* mutant: the threshold must be exceeded
MeetsThreshold_Strict(profileScore, threshold) ==
    CASE profileScore[1] \notin {"str", "arr", "obj"}
            \/ threshold[1] \notin {"str", "arr", "obj"}
         -> NumGT(Number(profileScore), Number(threshold))

\* profileScore >= threshold: the two are compared as numbers unless both
\* are texts (or arrays or objects, which count as their text); the
\* comparison of two texts is not modelled
MeetsThreshold(profileScore, threshold) ==
    CASE profileScore[1] \notin {"str", "arr", "obj"}
            \/ threshold[1] \notin {"str", "arr", "obj"}
         -> NumGE(Number(profileScore), Number(threshold))

RECURSIVE CheckRequiredScores_BreakdownOnPass(_, _, _)
\* mutant: the observed score is recorded only when the threshold is met
CheckRequiredScores_BreakdownOnPass(entries, profile, acc) ==
    IF entries = <<>> THEN acc
    ELSE LET scoreName == Head(entries).key
             threshold == Head(entries).value
             profileScore == ProfileScore(profile, scoreName)
         IN CheckRequiredScores_BreakdownOnPass(
               Tail(entries), profile,
               IF MeetsThreshold(profileScore, threshold)
               THEN [why |-> Append(acc.why, PassLine(scoreName, profileScore, threshold)),
                     scoreBreakdown |-> ObjectSet(acc.scoreBreakdown, scoreName, profileScore),
                     allScoresMet |-> acc.allScoresMet]
               ELSE [why |-> Append(acc.why, FailLine(scoreName, profileScore, threshold)),
                     scoreBreakdown |-> acc.scoreBreakdown,
                     allScoresMet |-> FALSE])

RECURSIVE CheckRequiredScores(_, _, _)
\* the loop over Object.entries(requiredScores), from the state acc =
\* [why, scoreBreakdown, allScoresMet]
CheckRequiredScores(entries, profile, acc) ==
    IF entries = <<>> THEN acc
    ELSE LET scoreName == Head(entries).key
             threshold == Head(entries).value
             profileScore == ProfileScore(profile, scoreName)
             breakdown == ObjectSet(acc.scoreBreakdown, scoreName, profileScore)
         IN CheckRequiredScores(
               Tail(entries), profile,
               IF MeetsThreshold(profileScore, threshold)
               THEN [why |-> Append(acc.why, PassLine(scoreName, profileScore, threshold)),
                     scoreBreakdown |-> breakdown,
                     allScoresMet |-> acc.allScoresMet]
               ELSE [why |-> Append(acc.why, FailLine(scoreName, profileScore, threshold)),
                     scoreBreakdown |-> breakdown,
                     allScoresMet |-> FALSE])

RECURSIVE RankScore(_, _, _)
\* the loop over Object.entries(weights): rankScore += profileScore * weight,
\* in eighths; the profile score counts as a number, which is an integer
RankScore(entries, profile, rankScore) ==
    IF entries = <<>> THEN rankScore
    ELSE LET profileScore == Number(ProfileScore(profile, Head(entries).key))
         IN CASE profileScore[1] = "num" ->
                   RankScore(Tail(entries), profile,
                             Eighths(rankScore[2] + profileScore[2] * Head(entries).value[2]))

\* mutant: the ranking score cut to two decimals instead of rounded
RoundTo2_Floor(x) == Dec(((25 * x[2]) \div 2) * 10)

\* Math.round(x * 100) / 100 of x = n / 8: x * 100 is the half-integer
\* 25 n / 2, exact in floating point, and Math.round takes a half up
RoundTo2(x) == Dec(((25 * x[2] + 1) \div 2) * 10)

\* the body of the loop for a product that is not skipped: the entry pushed
EvaluateProduct(product, profile) ==
    LET exclusions == ExclusionsOf(product) IN
    IF HasExclusion(exclusions, profile)
    THEN [product |-> product,
          decision |-> "HIDDEN",
          rank |-> 0,
          score |-> RoundTo2(Eighths(0)),
          why |-> << ExcludedLine(MatchedExclusion(exclusions, profile)) >>,
          scoreBreakdown |-> OrderedObj(<<>>, <<>>)]
    ELSE LET req == CheckRequiredScores(
                       ObjectEntries(MapOrEmpty(product.required_scores)), profile,
                       [why |-> <<>>, scoreBreakdown |-> OrderedObj(<<>>, <<>>),
                        allScoresMet |-> TRUE])
             rankScore == RankScore(ObjectEntries(MapOrEmpty(product.weight_by_score)),
                                    profile, Eighths(0))
         IN [product |-> product,
             decision |-> IF req.allScoresMet THEN "SHOWN" ELSE "HIDDEN",
             rank |-> 0,
             score |-> RoundTo2(rankScore),
             why |-> req.why,
             scoreBreakdown |-> req.scoreBreakdown]

RECURSIVE PushRecommendations(_, _)
\* for (const product of products): the list after the loop
PushRecommendations(ps, profile) ==
    IF ps = <<>> THEN <<>>
    ELSE IF Skipped(Head(ps)) THEN PushRecommendations(Tail(ps), profile)
    ELSE <<EvaluateProduct(Head(ps), profile)>> \o PushRecommendations(Tail(ps), profile)

\* mutant: the comparator without the test of the decision
CompareRecommendations_ScoreOnly(a, b) == b.score[2] - a.score[2]

\* the comparator of recommendations.sort
CompareRecommendations(a, b) ==
    IF a.decision # b.decision
    THEN (IF a.decision = "SHOWN" THEN 0 - 1 ELSE 1)
    ELSE b.score[2] - a.score[2]

RECURSIVE InsertRecommendation_BeforeEquals(_, _)
\* mutant: an entry goes before the entries it compares equal to
InsertRecommendation_BeforeEquals(r, s) ==
    IF s = <<>> THEN <<r>>
    ELSE IF CompareRecommendations(s[Len(s)], r) < 0 THEN Append(s, r)
    ELSE Append(InsertRecommendation_BeforeEquals(r, SubSeq(s, 1, Len(s) - 1)), s[Len(s)])

RECURSIVE InsertRecommendation(_, _)
\* r goes after every entry that does not compare greater than it
InsertRecommendation(r, s) ==
    IF s = <<>> THEN <<r>>
    ELSE IF CompareRecommendations(s[Len(s)], r) <= 0 THEN Append(s, r)
    ELSE Append(InsertRecommendation(r, SubSeq(s, 1, Len(s) - 1)), s[Len(s)])

RECURSIVE SortRecommendations(_)
\* recommendations.sort(comparator): Array.prototype.sort is stable
SortRecommendations(rs) ==
    IF rs = <<>> THEN <<>>
    ELSE InsertRecommendation(rs[Len(rs)], SortRecommendations(SubSeq(rs, 1, Len(rs) - 1)))

\* recommendations.forEach((rec, idx) => { rec.rank = idx + 1 })
AssignRanks(rs) == [idx \in 1..Len(rs) |-> [rs[idx] EXCEPT !.rank = idx]]

\* recommend(products, profile)
recommend(ps, profile) == AssignRanks(SortRecommendations(PushRecommendations(ps, profile)))

-----------------------------------------------------------------------------
(* Inputs *)

MaxRules  == 2   \* longest rules list passed to evaluateRules
MaxEvents == 2   \* longest events list passed to evaluateRules
MaxApply  == 2   \* longest chain of applyEffect calls of the applyEffect driver

S_fs     == <<"f","s">>                    \* a score name
S_hi     == <<"h","i">>                    \* another score name
T_stable == <<"s","t","a","b","l","e">>    \* a tag
T_vip    == <<"v","i","p">>                \* another tag
K_amount == <<"a","m","o","u","n","t">>
K_age    == <<"a","g","e">>
K_note   == <<"n","o","t","e">>
K_missing == <<"m","i","s","s","i","n","g">>
K_visits == <<"v","i","s","i","t","s">>

Condition(source, op, value) == [source |-> source, op |-> op, value |-> value]

ScoreDelta(score, delta) ==
    [type |-> "scoreDelta", score |-> score, delta |-> delta, tag |-> Undefined]
AddTag(tag) ==
    [type |-> "addTag", score |-> Undefined, delta |-> Undefined, tag |-> tag]
RemoveTag(tag) ==
    [type |-> "removeTag", score |-> Undefined, delta |-> Undefined, tag |-> tag]

Rule(id, status, priority, event, conditions, effects) ==
    [id |-> id, name |-> "Rule " \o id, status |-> status, priority |-> priority,
     event |-> event, conditions |-> conditions, effects |-> effects]

\* The rules evaluateRules is called with: rows of the rules table (ids are
\* its primary key), in any order.
RulePool ==
    { Rule("r1", "ACTIVE", 90, "SALARY_CREDIT",
           << Condition(<<K_event, K_amount>>, ">", Num(50000)) >>,
           << ScoreDelta(Str(S_fs), Num(10)), AddTag(Str(T_stable)) >>),
      Rule("r2", "ACTIVE", 70, "SALARY_CREDIT",
           << Condition(<<K_profile, K_scores, S_fs>>, ">=", Num(60)) >>,
           << AddTag(Str(T_vip)), AddTag(Str(T_stable)) >>),
      Rule("r3", "ACTIVE", 70, "SALARY_CREDIT",
           << >>,
           << ScoreDelta(Str(S_fs), Num(0 - 5)), RemoveTag(Str(T_stable)) >>),
      Rule("r4", "DRAFT", 95, "SALARY_CREDIT",
           << >>,
           << ScoreDelta(Str(S_fs), Num(100)) >>),
      Rule("r5", "INACTIVE", 90, "LOGIN",
           << >>,
           << AddTag(Str(T_vip)) >>),
      Rule("r6", "ACTIVE", 90, "LOGIN",
           << Condition(<<K_profile, K_tags>>, "contains", Str(<<"S","T","A","B","L","E">>)) >>,
           << ScoreDelta(Undefined, Num(3)), ScoreDelta(Str(S_hi), Num(7)),
              RemoveTag(Str(T_vip)) >>),
      Rule("r7", "ACTIVE", 90, "LOGIN",
           << Condition(<<K_profile, K_static, K_age>>, "in",
                        Arr(<<Str(<<"1","8">>), Str(<<"3","0">>)>>)),
              Condition(<<K_event, K_missing>>, "=", Str(<<"u","n","d","e","f","i","n","e","d">>)) >>,
           << AddTag(Str(T_vip)) >>) }

EventPool ==
    { [type |-> "SALARY_CREDIT", payload |-> Obj(K_amount :> Num(65000))],
      [type |-> "LOGIN",         payload |-> Obj(K_note :> Null)] }

\* profiles by value, as JSON.parse gives them
ProfilePool ==
    { [customer_id |-> "c1", static_data |-> Obj(K_age :> Num(30)), behavioral |-> EmptyObj,
       scores |-> Obj(S_fs :> Num(52)), tags |-> Arr(<<>>), last_updated |-> "T0"],
      [customer_id |-> "c2", static_data |-> EmptyObj, behavioral |-> EmptyObj,
       scores |-> Obj((S_fs :> Num(60)) @@ (S_hi :> Num(0))),
       tags |-> Arr(<<Str(T_stable), Str(T_vip)>>), last_updated |-> "T0"] }

T_unstable == <<"u","n">> \o T_stable       \* a tag that has another in its text

\* the profiles applyEffect and buildContext are tried on directly; a
\* profile is any JSON the caller parsed (the tags column is JSONB, the
\* simulation page parses what was typed), so a tags list may hold a tag
\* twice
EffectProfilePool ==
    ProfilePool \cup
    { [customer_id |-> "c3", static_data |-> Obj(K_age :> Num(17)),
       behavioral |-> Obj(K_visits :> Num(3)),
       scores |-> EmptyObj, tags |-> Arr(<<Str(T_vip)>>), last_updated |-> "T0"],
      [customer_id |-> "c4", static_data |-> EmptyObj, behavioral |-> EmptyObj,
       scores |-> EmptyObj, tags |-> Arr(<<Str(T_vip), Str(T_vip)>>),
       last_updated |-> "T0"],
      [customer_id |-> "c5", static_data |-> EmptyObj, behavioral |-> EmptyObj,
       scores |-> EmptyObj, tags |-> Arr(<<Str(T_stable), Str(T_unstable)>>),
       last_updated |-> "T0"] }

\* what new Date().toISOString() may return
Timestamps == {"T0", "T1"}

\* the lists without repetition of at most n members of S
ListsOf(S, n) ==
    UNION { { f \in [1..k -> S] : \A i, j \in 1..k : i # j => f[i] # f[j] } : k \in 0..n }

\* the lists of at most n members of S
SeqsOf(S, n) == UNION { [1..k -> S] : k \in 0..n }

\* a heap holding one profile, at address 5
HeapOf(p) ==
    << p.static_data, p.behavioral, p.scores, p.tags,
       [customer_id |-> p.customer_id, static_data |-> 1, behavioral |-> 2,
        scores |-> 3, tags |-> 4, last_updated |-> p.last_updated] >>

ProfileAddr == Len(HeapOf(CHOOSE p \in ProfilePool : TRUE))

-----------------------------------------------------------------------------
(* evaluateRules as a state machine *)

NoContext == Undefined

\* no second call was made, recommend is not being called, and no API call
\* is made: the database is not looked at
NoOtherCall ==
    /\ firstCall = <<>>
    /\ products = <<>>
    /\ recProfile = <<>>
    /\ recommendations = <<>>
    /\ rulesTable = <<>>
    /\ rule_versions = <<>>
    /\ audit_logs = <<>>
    /\ calls = <<>>
    /\ started = 0
    /\ lastStatusOp = <<>>

\* the call evaluateRules(rules, initialProfile, events) is about to run
InitEval ==
    /\ \E p \in ProfilePool :
          /\ heap = HeapOf(p)
          /\ callSnap = p
          /\ eventSnap = p
    /\ initialProfile = ProfileAddr
    /\ rules \in ListsOf(RulePool, MaxRules)
    /\ events \in SeqsOf(EventPool, MaxEvents)
    /\ pc = "call"
    /\ currentProfile = 0
    /\ trace = <<>>
    /\ sortedRules = <<>>
    /\ eventIdx = 0
    /\ matchingRules = <<>>
    /\ ruleIdx = 0
    /\ context = NoContext
    /\ allConditionsMet = FALSE
    /\ effectIdx = 0
    /\ effectDescriptions = <<>>
    /\ checks = <<>>
    /\ firings = <<>>
    /\ fx = <<>>
    /\ cond = <<>>
    /\ NoOtherCall

\* lines 152-156: the deep copy, the empty trace, the sorted copy of rules
Begin ==
    /\ pc = "call"
    /\ LET c == JsonClone(heap, initialProfile) IN
          /\ heap' = c.heap
          /\ currentProfile' = c.addr
    /\ trace' = <<>>
    /\ sortedRules' = SortRules(rules)
    /\ pc' = "loop"
    /\ UNCHANGED untouched
    /\ UNCHANGED <<rules, events, initialProfile, eventIdx, matchingRules, ruleIdx,
                   context, allConditionsMet, effectIdx, effectDescriptions,
                   callSnap, eventSnap, checks, firings, fx, cond>>

\* lines 159-163: the next event of the for-of loop and its matching rules
NextEvent ==
    /\ pc = "loop"
    /\ ruleIdx = Len(matchingRules)
    /\ eventIdx < Len(events)
    /\ eventIdx' = eventIdx + 1
    /\ matchingRules' = Filter(sortedRules, EventAt(events, eventIdx + 1))
    /\ ruleIdx' = 0
    /\ eventSnap' = Deref(heap, currentProfile)
    /\ UNCHANGED untouched
    /\ UNCHANGED <<heap, rules, events, initialProfile, pc, currentProfile, trace,
                   sortedRules, context, allConditionsMet, effectIdx,
                   effectDescriptions, callSnap, checks, firings, fx, cond>>

\* lines 165-177: the next matching rule: context, conditions, and either
\* the start of its effects or the next rule
CheckRule ==
    /\ pc = "loop"
    /\ ruleIdx < Len(matchingRules)
    /\ LET rule == matchingRules[ruleIdx + 1]
           ctx == buildContext(heap, currentProfile, EventAt(events, eventIdx))
           met == Every(rule.conditions, ctx)
       IN /\ context' = ctx
          /\ allConditionsMet' = met
          /\ checks' = Append(checks, [event |-> eventIdx, rule |-> rule,
                                       context |-> ctx, met |-> met])
          /\ IF met
             THEN /\ pc' = "effects"
                  /\ effectIdx' = 0
                  /\ effectDescriptions' = <<>>
                  /\ ruleIdx' = ruleIdx
             ELSE /\ pc' = "loop"
                  /\ ruleIdx' = ruleIdx + 1
                  /\ UNCHANGED <<effectIdx, effectDescriptions>>
    /\ UNCHANGED untouched
    /\ UNCHANGED <<heap, rules, events, initialProfile, currentProfile, trace,
                   sortedRules, eventIdx, matchingRules, callSnap, eventSnap,
                   firings, fx, cond>>

\* lines 179-185: one iteration of the loop over rule.effects
ApplyNextEffect ==
    /\ pc = "effects"
    /\ LET rule == matchingRules[ruleIdx + 1] IN
          /\ effectIdx < Len(rule.effects)
          /\ LET result == applyEffect(heap, currentProfile, rule.effects[effectIdx + 1]) IN
                /\ heap' = result.heap
                /\ currentProfile' = result.profile
                /\ effectDescriptions' =
                      PushDescription(effectDescriptions, result.description)
    /\ effectIdx' = effectIdx + 1
    /\ UNCHANGED untouched
    /\ UNCHANGED <<rules, events, initialProfile, pc, trace, sortedRules, eventIdx,
                   matchingRules, ruleIdx, context, allConditionsMet,
                   callSnap, eventSnap, checks, firings, fx, cond>>

\* lines 187-191: the trace entry of the rule that fired
PushTrace ==
    /\ pc = "effects"
    /\ LET rule == matchingRules[ruleIdx + 1] IN
          /\ effectIdx = Len(rule.effects)
          /\ trace' = Append(trace, [ruleId |-> rule.id,
                                     ruleName |-> rule.name,
                                     effectDescription |-> JoinDescriptions(effectDescriptions)])
          /\ firings' = Append(firings, [event |-> eventIdx, rule |-> rule,
                                         check |-> Len(checks)])
    /\ ruleIdx' = ruleIdx + 1
    /\ pc' = "loop"
    /\ UNCHANGED untouched
    /\ UNCHANGED <<heap, rules, events, initialProfile, currentProfile, sortedRules,
                   eventIdx, matchingRules, context, allConditionsMet, effectIdx,
                   effectDescriptions, callSnap, eventSnap, checks, fx, cond>>

\* lines 196-199: last_updated and the return
Return ==
    /\ pc = "loop"
    /\ ruleIdx = Len(matchingRules)
    /\ eventIdx = Len(events)
    /\ \E now \in Timestamps :
          heap' = [heap EXCEPT ![currentProfile].last_updated = now]
    /\ pc' = "done"
    /\ UNCHANGED untouched
    /\ UNCHANGED <<rules, events, initialProfile, currentProfile, trace, sortedRules,
                   eventIdx, matchingRules, ruleIdx, context, allConditionsMet,
                   effectIdx, effectDescriptions, callSnap, eventSnap, checks, firings,
                   fx, cond>>

evaluateRules == Begin \/ NextEvent \/ CheckRule \/ ApplyNextEffect \/ PushTrace \/ Return

-----------------------------------------------------------------------------
(* Two calls in succession: evaluateRules(rules, first.newProfile, [])     *)

\* the caller passes the profile the first call returned, the same rules
\* and no events
CallAgain ==
    /\ pc = "done"
    /\ firstCall = <<>>
    /\ firstCall' = << [newProfile |-> Deref(heap, currentProfile), trace |-> trace] >>
    /\ initialProfile' = currentProfile
    /\ events' = <<>>
    /\ pc' = "call"
    /\ callSnap' = Deref(heap, currentProfile)
    /\ eventSnap' = Deref(heap, currentProfile)
    /\ currentProfile' = 0
    /\ trace' = <<>>
    /\ sortedRules' = <<>>
    /\ eventIdx' = 0
    /\ matchingRules' = <<>>
    /\ ruleIdx' = 0
    /\ context' = NoContext
    /\ allConditionsMet' = FALSE
    /\ effectIdx' = 0
    /\ effectDescriptions' = <<>>
    /\ checks' = <<>>
    /\ firings' = <<>>
    /\ UNCHANGED <<heap, rules, fx, cond, products, recProfile, recommendations>>
    /\ UNCHANGED apiVars

RoundTripNext == evaluateRules \/ CallAgain

RoundTripSpec == InitEval /\ [][RoundTripNext]_vars

-----------------------------------------------------------------------------
(* applyEffect called directly: a chain of calls, each on the profile the  *)
(* previous call returned                                                  *)

EffectPool ==
    { ScoreDelta(Str(s), Num(d)) : s \in {S_fs, S_hi}, d \in {0 - 5, 0, 10} }
    \cup { ScoreDelta(Str(<<>>), Num(10)), ScoreDelta(Undefined, Num(10)),
           ScoreDelta(Str(S_fs), Undefined), ScoreDelta(Str(S_fs), Null) }
    \cup { AddTag(t) : t \in {Str(T_stable), Str(T_vip), Str(<<>>), Undefined} }
    \cup { RemoveTag(t) : t \in {Str(T_stable), Str(T_vip), Str(<<>>), Undefined} }
    \cup { [type |-> "setFlag", score |-> Undefined, delta |-> Undefined,
            tag |-> Str(T_vip)] }

\* the variables of evaluateRules, idle
EvalIdle ==
    /\ rules = <<>>
    /\ events = <<>>
    /\ currentProfile = 0
    /\ trace = <<>>
    /\ sortedRules = <<>>
    /\ eventIdx = 0
    /\ matchingRules = <<>>
    /\ ruleIdx = 0
    /\ context = NoContext
    /\ allConditionsMet = FALSE
    /\ effectIdx = 0
    /\ effectDescriptions = <<>>
    /\ checks = <<>>
    /\ firings = <<>>

InitEffect ==
    /\ \E p \in EffectProfilePool :
          /\ heap = HeapOf(p)
          /\ callSnap = p
          /\ eventSnap = p
    /\ initialProfile = ProfileAddr
    /\ pc = "applyEffect"
    /\ EvalIdle
    /\ fx = <<>>
    /\ cond = <<>>
    /\ NoOtherCall

\* lines 108-142: result = applyEffect(profile, effect)
CallApplyEffect ==
    /\ pc = "applyEffect"
    /\ Len(fx) < MaxApply
    /\ \E effect \in EffectPool :
          LET profile == IF fx = <<>> THEN initialProfile ELSE fx[Len(fx)].out
              result == applyEffect(heap, profile, effect)
          IN /\ heap' = result.heap
             /\ fx' = Append(fx, [effect |-> effect,
                                  in |-> profile,
                                  before |-> Deref(heap, profile),
                                  out |-> result.profile,
                                  description |-> result.description])
    /\ UNCHANGED untouched
    /\ UNCHANGED <<rules, events, initialProfile, pc, currentProfile, trace, sortedRules,
                   eventIdx, matchingRules, ruleIdx, context, allConditionsMet,
                   effectIdx, effectDescriptions, callSnap, eventSnap, checks, firings,
                   cond>>

-----------------------------------------------------------------------------
(* checkCondition(getByPath(context, source), op, value) called directly   *)

K_label == <<"l","a","b","e","l">>

CondEventPool ==
    EventPool \cup
    { [type |-> "TRANSFER_POSTED",
       payload |-> Obj( (K_amount :> Str(<<"1","2","0">>)) @@
                        (K_note   :> Null) @@
                        (K_label  :> Str(<<"R","e","n","t">>)) )] }

ContextPool ==
    { buildContext(HeapOf(p), ProfileAddr, e) : p \in EffectProfilePool, e \in CondEventPool }

SourcePool ==
    { <<K_event, K_amount>>, <<K_event, K_note>>, <<K_event, K_missing>>,
      <<K_event, K_amount, K_missing>>, <<K_event, K_label>>,
      <<K_profile, K_scores, S_fs>>, <<K_profile, K_scores, S_hi>>,
      <<K_profile, K_tags>>, <<K_profile, K_tags, <<"0">>>>,
      <<K_profile, K_static, K_age>>, <<K_missing, K_amount>> }

OpPool == {">", "<", ">=", "<=", "=", "contains", "in", "!="}

TargetPool ==
    { Num(50000), Num(30), Str(T_stable), Str(<<"R","E","N","T">>), Str(<<"6","5","0","0","0">>),
      Str(<<>>), Str(<<"n","u","l","l">>), Str(<<"u","n","d","e","f","i","n","e","d">>),
      Bool(TRUE), Null,
      Arr(<<Str(<<"S","t","a","b","l","e">>), Str(<<"3","0">>), Str(<<"n","u","l","l">>)>>) }

InitCond ==
    /\ heap = <<>>
    /\ callSnap = <<>>
    /\ eventSnap = <<>>
    /\ initialProfile = 0
    /\ pc = "checkCondition"
    /\ EvalIdle
    /\ fx = <<>>
    /\ cond = <<>>
    /\ NoOtherCall

\* lines 171-172: sourceValue = getByPath(context, condition.source);
\* checkCondition(sourceValue, condition.op, condition.value)
CallCheckCondition ==
    /\ pc = "checkCondition"
    /\ cond = <<>>
    /\ \E ctx \in ContextPool, source \in SourcePool, op \in OpPool, value \in TargetPool :
          LET sourceValue == getByPath(ctx, source) IN
          cond' = << [context |-> ctx,
                      condition |-> Condition(source, op, value),
                      sourceValue |-> sourceValue,
                      result |-> checkCondition(sourceValue, op, value)] >>
    /\ UNCHANGED untouched
    /\ UNCHANGED <<heap, rules, events, initialProfile, pc, currentProfile, trace,
                   sortedRules, eventIdx, matchingRules, ruleIdx, context,
                   allConditionsMet, effectIdx, effectDescriptions, callSnap, eventSnap,
                   checks, firings, fx>>

-----------------------------------------------------------------------------
(* recommend(products, profile) called directly                            *)

MaxProducts == 3   \* longest catalogue passed to recommend

Product(id, name, required_scores, weight_by_score, exclusions, active) ==
    [id |-> id, name |-> name, required_scores |-> required_scores,
     weight_by_score |-> weight_by_score, exclusions |-> exclusions, active |-> active]

\* rows of the products table, in any order
ProductPool ==
    { Product("pA", "Gold",
              OrderedObj(<<S_fs>>, S_fs :> Num(60)),
              OrderedObj(<<S_fs, S_hi>>, (S_fs :> Eighths(8)) @@ (S_hi :> Eighths(1))),
              Arr(<<>>), TRUE),
      Product("pB", "Saver",
              Undefined,
              OrderedObj(<<S_fs, S_hi>>, (S_fs :> Eighths(8)) @@ (S_hi :> Eighths(1))),
              Undefined, TRUE),
      Product("pC", "Loan",
              OrderedObj(<<S_fs, S_hi>>, (S_fs :> Num(60)) @@ (S_hi :> Num(5))),
              OrderedObj(<<S_hi>>, S_hi :> Eighths(0 - 1)),
              Arr(<<Str(T_vip), Str(T_stable)>>), TRUE),
      Product("pD", "Card",
              OrderedObj(<<S_hi>>, S_hi :> Num(0)),
              OrderedObj(<<S_fs>>, S_fs :> Eighths(16)),
              Arr(<<Str(T_stable)>>), TRUE),
      Product("pE", "Old",
              OrderedObj(<<>>, <<>>),
              OrderedObj(<<S_fs>>, S_fs :> Eighths(24)),
              Arr(<<>>), FALSE),
      Product("pF", "Basic",
              OrderedObj(<<>>, <<>>),
              Undefined,
              Arr(<<>>), TRUE),
      Product("pG", "Premium",
              OrderedObj(<<S_fs>>, S_fs :> Num(90)),
              OrderedObj(<<S_fs>>, S_fs :> Eighths(16)),
              Undefined, TRUE) }

\* the profiles recommend is tried on
RecProfilePool ==
    { [customer_id |-> "q1", static_data |-> EmptyObj, behavioral |-> EmptyObj,
       scores |-> Obj((S_fs :> Num(62)) @@ (S_hi :> Num(3))),
       tags |-> Arr(<<>>), last_updated |-> "T0"],
      [customer_id |-> "q2", static_data |-> EmptyObj, behavioral |-> EmptyObj,
       scores |-> Obj(S_fs :> Num(52)),
       tags |-> Arr(<<Str(T_stable), Str(T_vip)>>), last_updated |-> "T0"],
      [customer_id |-> "q3", static_data |-> EmptyObj, behavioral |-> EmptyObj,
       scores |-> EmptyObj,
       tags |-> Arr(<<Str(T_vip)>>), last_updated |-> "T0"] }

InitRecommend ==
    /\ products \in ListsOf(ProductPool, MaxProducts)
    /\ recProfile \in RecProfilePool
    /\ recommendations = <<>>
    /\ pc = "recommend"
    /\ heap = <<>>
    /\ callSnap = <<>>
    /\ eventSnap = <<>>
    /\ initialProfile = 0
    /\ EvalIdle
    /\ fx = <<>>
    /\ cond = <<>>
    /\ firstCall = <<>>
    /\ rulesTable = <<>>
    /\ rule_versions = <<>>
    /\ audit_logs = <<>>
    /\ calls = <<>>
    /\ started = 0
    /\ lastStatusOp = <<>>

\* lines 205-280: recommendations = recommend(products, profile)
CallRecommend ==
    /\ pc = "recommend"
    /\ recommendations' = recommend(products, recProfile)
    /\ pc' = "recommended"
    /\ UNCHANGED <<heap, rules, events, initialProfile, currentProfile, trace,
                   sortedRules, eventIdx, matchingRules, ruleIdx, context,
                   allConditionsMet, effectIdx, effectDescriptions, callSnap, eventSnap,
                   checks, firings, fx, cond, firstCall, products, recProfile>>
    /\ UNCHANGED apiVars

RecommendSpec == InitRecommend /\ [][CallRecommend]_vars

-----------------------------------------------------------------------------

Init == InitEval \/ InitEffect \/ InitCond

Next == evaluateRules \/ CallApplyEffect \/ CallCheckCondition

Spec == Init /\ [][Next]_vars

-----------------------------------------------------------------------------
(* The same call twice: evaluateRules(rules, profile, events) and          *)
(* recommend(products, newProfile), other calls, and both calls again on   *)
(* the same arguments                                                      *)

\* the rules of the repeated call: the ACTIVE rules that write scores and
\* tags
SameRuleIds == {"r1", "r2", "r3", "r6"}

\* the call evaluateRules(rules, initialProfile, events) is about to run
InitSame ==
    /\ InitEval
    /\ \A i \in 1..Len(rules) : rules[i].id \in SameRuleIds

\* the catalogue recommend is given after evaluateRules
CataloguePool ==
    { ps \in [1..3 -> ProductPool] :
         ps[1].id = "pC" /\ ps[2].id = "pA" /\ ps[3].id = "pD" }

\* the effects of the applyEffect call made between the two calls
BetweenPool == { AddTag(Str(T_vip)), ScoreDelta(Str(S_fs), Num(10)) }

\* recommend(products, newProfile) on the profile the first call returned
RecommendResult ==
    /\ pc = "done"
    /\ firstCall = <<>>
    /\ products = <<>>
    /\ products' \in CataloguePool
    /\ recProfile' = Deref(heap, currentProfile)
    /\ recommendations' = recommend(products', recProfile')
    /\ UNCHANGED <<heap, rules, events, initialProfile, pc, currentProfile, trace,
                   sortedRules, eventIdx, matchingRules, ruleIdx, context,
                   allConditionsMet, effectIdx, effectDescriptions, callSnap, eventSnap,
                   checks, firings, fx, cond, firstCall>>
    /\ UNCHANGED apiVars

\* applyEffect(newProfile, effect) on the profile the first call returned
ApplyBetween ==
    /\ pc = "done"
    /\ firstCall = <<>>
    /\ fx = <<>>
    /\ \E effect \in BetweenPool :
          LET result == applyEffect(heap, currentProfile, effect)
          IN /\ heap' = result.heap
             /\ fx' = << [effect |-> effect,
                          in |-> currentProfile,
                          before |-> Deref(heap, currentProfile),
                          out |-> result.profile,
                          description |-> result.description] >>
    /\ UNCHANGED untouched
    /\ UNCHANGED <<rules, events, initialProfile, pc, currentProfile, trace, sortedRules,
                   eventIdx, matchingRules, ruleIdx, context, allConditionsMet,
                   effectIdx, effectDescriptions, callSnap, eventSnap, checks, firings,
                   cond>>

\* evaluateRules(rules, profile, events) again, with the arguments of the
\* first call; what the first calls returned is kept for comparison
CallSame ==
    /\ pc = "done"
    /\ firstCall = <<>>
    /\ products # <<>>
    /\ firstCall' = << [newProfile |-> Deref(heap, currentProfile),
                        trace |-> trace,
                        profile |-> currentProfile,
                        recommendations |-> recommendations] >>
    /\ pc' = "call"
    /\ callSnap' = Deref(heap, initialProfile)
    /\ eventSnap' = Deref(heap, initialProfile)
    /\ currentProfile' = 0
    /\ trace' = <<>>
    /\ sortedRules' = <<>>
    /\ eventIdx' = 0
    /\ matchingRules' = <<>>
    /\ ruleIdx' = 0
    /\ context' = NoContext
    /\ allConditionsMet' = FALSE
    /\ effectIdx' = 0
    /\ effectDescriptions' = <<>>
    /\ checks' = <<>>
    /\ firings' = <<>>
    /\ UNCHANGED <<heap, rules, events, initialProfile, fx, cond, products, recProfile,
                   recommendations>>
    /\ UNCHANGED apiVars

\* recommend(products, newProfile) again, with the arguments of the first
\* call: the same catalogue and the profile object the first evaluateRules
\* returned
RecommendAgain ==
    /\ pc = "done"
    /\ firstCall # <<>>
    /\ recProfile' = Deref(heap, firstCall[1].profile)
    /\ recommendations' = recommend(products, recProfile')
    /\ pc' = "compared"
    /\ UNCHANGED <<heap, rules, events, initialProfile, currentProfile, trace,
                   sortedRules, eventIdx, matchingRules, ruleIdx, context,
                   allConditionsMet, effectIdx, effectDescriptions, callSnap, eventSnap,
                   checks, firings, fx, cond, firstCall, products>>
    /\ UNCHANGED apiVars

DeterminismNext ==
    evaluateRules \/ RecommendResult \/ ApplyBetween \/ CallSame \/ RecommendAgain

DeterminismSpec == InitSame /\ [][DeterminismNext]_vars

-----------------------------------------------------------------------------
(* The rules API (lib/api.ts, createRule to deleteRule) over the tables     *)
(* rules, rule_versions and audit_logs.  Every awaited statement is one     *)
(* step at the database; the calls of different sessions interleave         *)
(* between the statements.  The products API writes rows of entity_type     *)
(* 'PRODUCT' to audit_logs and nothing else of this state; audit_logs here  *)
(* is the rows of entity_type 'RULE'.                                       *)

MaxCalls == 3      \* API calls started in a run
MaxCreated == 1    \* rows inserted in table rules in a run

\* the columns of table rules that hold a rule's content
ContentFields == {"name", "priority", "event", "conditions", "effects", "scopes", "metadata"}

Row(name, status, priority, event, conditions, effects, scopes, metadata, version) ==
    [name |-> name, status |-> status, priority |-> priority, event |-> event,
     conditions |-> conditions, effects |-> effects, scopes |-> scopes,
     metadata |-> metadata, version |-> version]

\* the migration's seed: one of the three rules it stores ACTIVE and the
\* one it stores DRAFT, each at version 1 with scopes and metadata '{}'
\* (score and tag names shortened as in RulePool)
SeedRules ==
    ("r-salary" :>
        Row("Salary credit boosts stability", "ACTIVE", 90, "SALARY_CREDIT",
            << Condition(<<K_event, K_amount>>, ">", Num(50000)) >>,
            << ScoreDelta(Str(S_fs), Num(10)), AddTag(Str(T_stable)) >>,
            EmptyObj, EmptyObj, 1))
    @@
    ("r-marketplace" :>
        Row("Marketplace browsing indicates credit interest", "DRAFT", 60,
            "MARKETPLACE_VIEW",
            << Condition(<<K_event, <<"c","a","t","e","g","o","r","y">>>>, "=",
                         Str(<<"l","o","a","n","s">>)) >>,
            << ScoreDelta(Str(S_hi), Num(8)), AddTag(Str(T_vip)) >>,
            EmptyObj, EmptyObj, 1))

\* gen_random_uuid(): the ids of the rows inserted, in insertion order
NewIds == <<"new-1", "new-2", "new-3">>

\* the rule argument of createRule (a Partial<Rule>); the event of the
\* last is no value of the enum rule_event
NewRulePool ==
    { [name |-> "Login streak", event |-> "LOGIN"],
      [name |-> "Rent transfer", event |-> "TRANSFER_POSTED", priority |-> 80,
       status |-> "ACTIVE", effects |-> << AddTag(Str(T_vip)) >>],
      [name |-> "Rent paid", event |-> "RENT_PAYMENT", priority |-> 80,
       status |-> "ACTIVE", effects |-> << AddTag(Str(T_vip)) >>] }

\* the updates argument of updateRule (a Partial<Rule>)
UpdatePool ==
    { [name |-> "Edited", priority |-> 10],
      [effects |-> <<>>, status |-> "ACTIVE"] }

\* a session that is in no call; last is how its last call ended
Idle(last) == [op |-> "idle", pc |-> last, id |-> "", arg |-> <<>>, local |-> <<>>]

\* a call in flight: the statement it runs next, its arguments and locals
Call(op, at, id, arg, local) == [op |-> op, pc |-> at, id |-> id, arg |-> arg, local |-> local]

\* a session may start a call
CanStart(s) == calls[s].op = "idle" /\ started < MaxCalls

\* a call that inserts a rule may start: the rows inserted so far (every
\* rule ever stored that the migration did not store) and the inserts that
\* calls in flight will make are fewer than MaxCreated
CanCreate ==
    (Cardinality(DOMAIN lastStatusOp) - Cardinality(DOMAIN SeedRules))
       + Cardinality({ s \in DOMAIN calls :
                          calls[s].op = "cloneRule" /\ calls[s].pc = "insert" })
    < MaxCreated

\* x || fallback for a number: 0 is falsy
OrNumber(x, fallback) == IF x = 0 THEN fallback ELSE x

\* rule.f || fallback for a property the Partial<Rule> may lack
OrMissing(rule, f, fallback) == IF f \in DOMAIN rule THEN rule[f] ELSE fallback

\* .update(values).eq('id', id): the columns given are written, the others
\* (and those whose value is undefined) are left as they are
UpdateRow(row, values) ==
    [f \in DOMAIN row |-> IF f \in DOMAIN values THEN values[f] ELSE row[f]]

\* the content columns of a row, a snapshot or a Partial<Rule>
ContentOf(r) == [f \in (DOMAIN r) \cap ContentFields |-> r[f]]

\* one row of audit_logs
AuditRow(id, action, before, after) ==
    [entity_id |-> id, action |-> action, before_state |-> before, after_state |-> after]

\* the API is about to be called by the given sessions: the database as
\* the migration leaves it
InitApi(sessions) ==
    /\ rulesTable = SeedRules
    /\ rule_versions = <<>>
    /\ audit_logs = <<>>
    /\ calls = [s \in sessions |-> Idle("none")]
    /\ started = 0
    /\ lastStatusOp = [id \in DOMAIN SeedRules |-> "migration"]
    /\ heap = <<>>
    /\ callSnap = <<>>
    /\ eventSnap = <<>>
    /\ initialProfile = 0
    /\ pc = "api"
    /\ EvalIdle
    /\ fx = <<>>
    /\ cond = <<>>
    /\ firstCall = <<>>
    /\ products = <<>>
    /\ recProfile = <<>>
    /\ recommendations = <<>>

\* what the API never touches
apiUntouched ==
    <<heap, rules, events, initialProfile, pc, currentProfile, trace, sortedRules,
      eventIdx, matchingRules, ruleIdx, context, allConditionsMet,
      effectIdx, effectDescriptions, callSnap, eventSnap, checks, firings, fx, cond,
      firstCall, products, recProfile, recommendations>>

\* createRule(rule) by session s
createRule(s) ==
    \* lines 93-108: insert the row with status DRAFT (version defaults to 1)
    \/ /\ CanStart(s)
       /\ CanCreate
       /\ \E rule \in { r \in NewRulePool :
                            r.event \in {"LOGIN", "SALARY_CREDIT", "TRANSFER_POSTED",
                                         "MARKETPLACE_VIEW"} } :
             LET id == NewIds[Cardinality(DOMAIN lastStatusOp) - Cardinality(DOMAIN SeedRules) + 1]
                 data == Row(rule.name, "DRAFT",
                             OrNumber(OrMissing(rule, "priority", 0), 50),
                             rule.event,
                             OrMissing(rule, "conditions", <<>>),
                             OrMissing(rule, "effects", <<>>),
                             OrMissing(rule, "scopes", EmptyObj),
                             OrMissing(rule, "metadata", EmptyObj),
                             1)
             IN /\ rulesTable' = (id :> data) @@ rulesTable
                /\ lastStatusOp' = (id :> "createRule") @@ lastStatusOp
                /\ calls' = [calls EXCEPT ![s] = Call("createRule", "audit", id, <<>>, <<data>>)]
       /\ started' = started + 1
       /\ UNCHANGED <<rule_versions, audit_logs>>
       /\ UNCHANGED apiUntouched
    \* lines 93-108: the database refuses an event that is no value of the
    \* enum rule_event; the error is thrown
    \/ /\ CanStart(s)
       /\ CanCreate
       /\ \E rule \in NewRulePool :
             rule.event \notin {"LOGIN", "SALARY_CREDIT", "TRANSFER_POSTED", "MARKETPLACE_VIEW"}
       /\ calls' = [calls EXCEPT ![s] = Idle("threw")]
       /\ started' = started + 1
       /\ UNCHANGED <<rulesTable, rule_versions, audit_logs, lastStatusOp>>
       /\ UNCHANGED apiUntouched
    \* lines 111-119: the audit entry, return
    \/ /\ calls[s].op = "createRule"
       /\ calls[s].pc = "audit"
       /\ audit_logs' = Append(audit_logs,
                               AuditRow(calls[s].id, "CREATE", <<>>, <<calls[s].local[1]>>))
       /\ calls' = [calls EXCEPT ![s] = Idle("returned")]
       /\ UNCHANGED <<rulesTable, rule_versions, started, lastStatusOp>>
       /\ UNCHANGED apiUntouched

\* cloneRule(id) by session s
cloneRule(s) ==
    \* lines 231-233: read the original; no row is 'Rule not found'
    \/ /\ CanStart(s)
       /\ CanCreate
       /\ \E id \in DOMAIN lastStatusOp \cup {"no-such-id"} :
             calls' = [calls EXCEPT ![s] =
                          IF id \in DOMAIN rulesTable
                          THEN Call("cloneRule", "insert", id, <<>>, <<rulesTable[id]>>)
                          ELSE Idle("threw")]
       /\ started' = started + 1
       /\ UNCHANGED <<rulesTable, rule_versions, audit_logs, lastStatusOp>>
       /\ UNCHANGED apiUntouched
    \* lines 235-252: insert the copy with status DRAFT; metadata gets
    \* clonedFrom, the id of the original as one piece of text
    \/ /\ calls[s].op = "cloneRule"
       /\ calls[s].pc = "insert"
       /\ LET original == calls[s].local[1]
              id == NewIds[Cardinality(DOMAIN lastStatusOp) - Cardinality(DOMAIN SeedRules) + 1]
              data == Row(original.name \o " (Copy)", "DRAFT", original.priority,
                          original.event, original.conditions, original.effects,
                          original.scopes,
                          Obj((<<"c","l","o","n","e","d","F","r","o","m">>
                                  :> Str(<<calls[s].id>>)) @@ original.metadata[2]),
                          1)
          IN /\ rulesTable' = (id :> data) @@ rulesTable
             /\ lastStatusOp' = (id :> "cloneRule") @@ lastStatusOp
             /\ calls' = [calls EXCEPT ![s] = Call("cloneRule", "audit", id, <<>>, <<data>>)]
       /\ UNCHANGED <<rule_versions, audit_logs, started>>
       /\ UNCHANGED apiUntouched
    \* lines 254-262: the audit entry, return
    \/ /\ calls[s].op = "cloneRule"
       /\ calls[s].pc = "audit"
       /\ audit_logs' = Append(audit_logs,
                               AuditRow(calls[s].id, "CREATE", <<>>, <<calls[s].local[1]>>))
       /\ calls' = [calls EXCEPT ![s] = Idle("returned")]
       /\ UNCHANGED <<rulesTable, rule_versions, started, lastStatusOp>>
       /\ UNCHANGED apiUntouched

\* updateRule(id, updates) by session s
updateRule(s) ==
    \* lines 124-128: read the row (null when there is none); an ACTIVE
    \* rule is refused
    \/ /\ CanStart(s)
       /\ \E id \in DOMAIN lastStatusOp \cup {"no-such-id"}, updates \in UpdatePool :
             calls' = [calls EXCEPT ![s] =
                          IF id \notin DOMAIN rulesTable
                          THEN Call("updateRule", "update", id, <<updates>>, <<>>)
                          ELSE IF rulesTable[id].status = "ACTIVE"
                          THEN Idle("threw")
                          ELSE Call("updateRule", "update", id, <<updates>>,
                                    <<rulesTable[id]>>)]
       /\ started' = started + 1
       /\ UNCHANGED <<rulesTable, rule_versions, audit_logs, lastStatusOp>>
       /\ UNCHANGED apiUntouched
    \* lines 130-145: write the content columns given; .single() is an
    \* error, which is thrown, when the row is gone
    \/ /\ calls[s].op = "updateRule"
       /\ calls[s].pc = "update"
       /\ LET id == calls[s].id
          IN IF id \in DOMAIN rulesTable
             THEN LET data == UpdateRow(rulesTable[id], ContentOf(calls[s].arg[1]))
                  IN /\ rulesTable' = [rulesTable EXCEPT ![id] = data]
                     /\ calls' = [calls EXCEPT ![s].pc = "audit",
                                               ![s].local = Append(@, data)]
             ELSE /\ rulesTable' = rulesTable
                  /\ calls' = [calls EXCEPT ![s] = Idle("threw")]
       /\ UNCHANGED <<rule_versions, audit_logs, started, lastStatusOp>>
       /\ UNCHANGED apiUntouched
    \* lines 148-157: the audit entry, return
    \/ /\ calls[s].op = "updateRule"
       /\ calls[s].pc = "audit"
       /\ audit_logs' = Append(audit_logs,
                               AuditRow(calls[s].id, "UPDATE",
                                        <<calls[s].local[1]>>, <<calls[s].local[2]>>))
       /\ calls' = [calls EXCEPT ![s] = Idle("returned")]
       /\ UNCHANGED <<rulesTable, rule_versions, started, lastStatusOp>>
       /\ UNCHANGED apiUntouched

\* publishRule(id) by session s
publishRule(s) ==
    \* lines 162-168: read the rule; the error of .single() is thrown when
    \* there is no row
    \/ /\ CanStart(s)
       /\ \E id \in DOMAIN lastStatusOp \cup {"no-such-id"} :
             calls' = [calls EXCEPT ![s] =
                          IF id \in DOMAIN rulesTable
                          THEN Call("publishRule", "snapshot", id, <<>>, <<rulesTable[id]>>)
                          ELSE Idle("threw")]
       /\ started' = started + 1
       /\ UNCHANGED <<rulesTable, rule_versions, audit_logs, lastStatusOp>>
       /\ UNCHANGED apiUntouched
    \* lines 173-178: store the rule read under the version read; when the
    \* rule is gone the insert fails on rule_id and the error is not looked at
    \/ /\ calls[s].op = "publishRule"
       /\ calls[s].pc = "snapshot"
       /\ LET rule == calls[s].local[1]
          IN rule_versions' =
                IF calls[s].id \in DOMAIN rulesTable
                THEN Append(rule_versions,
                            [rule_id |-> calls[s].id,
                             version |-> rule.version,
                             snapshot |-> rule])
                ELSE rule_versions
       /\ calls' = [calls EXCEPT ![s].pc = "update"]
       /\ UNCHANGED <<rulesTable, audit_logs, started, lastStatusOp>>
       /\ UNCHANGED apiUntouched
    \* lines 171, 181-191: status ACTIVE, version the one read + 1; the
    \* error is thrown when the row is gone
    \/ /\ calls[s].op = "publishRule"
       /\ calls[s].pc = "update"
       /\ LET id == calls[s].id
              newVersion == OrNumber(calls[s].local[1].version, 1) + 1
          IN IF id \in DOMAIN rulesTable
             THEN LET updated == UpdateRow(rulesTable[id],
                                           [status |-> "ACTIVE", version |-> newVersion])
                  IN /\ rulesTable' = [rulesTable EXCEPT ![id] = updated]
                     /\ calls' = [calls EXCEPT ![s].pc = "audit",
                                               ![s].local = Append(@, updated)]
                     /\ lastStatusOp' = [lastStatusOp EXCEPT ![id] = "publishRule"]
             ELSE /\ calls' = [calls EXCEPT ![s] = Idle("threw")]
                  /\ UNCHANGED <<rulesTable, lastStatusOp>>
       /\ UNCHANGED <<rule_versions, audit_logs, started>>
       /\ UNCHANGED apiUntouched
    \* lines 194-203: the audit entry, return
    \/ /\ calls[s].op = "publishRule"
       /\ calls[s].pc = "audit"
       /\ audit_logs' = Append(audit_logs,
                               AuditRow(calls[s].id, "PUBLISH",
                                        <<calls[s].local[1]>>, <<calls[s].local[2]>>))
       /\ calls' = [calls EXCEPT ![s] = Idle("returned")]
       /\ UNCHANGED <<rulesTable, rule_versions, started, lastStatusOp>>
       /\ UNCHANGED apiUntouched

\* disableRule(id) by session s
disableRule(s) ==
    \* line 207: read the row for the audit entry (null when there is none)
    \/ /\ CanStart(s)
       /\ \E id \in DOMAIN lastStatusOp \cup {"no-such-id"} :
             calls' = [calls EXCEPT ![s] =
                          Call("disableRule", "update", id, <<>>,
                               IF id \in DOMAIN rulesTable THEN <<rulesTable[id]>> ELSE <<>>)]
       /\ started' = started + 1
       /\ UNCHANGED <<rulesTable, rule_versions, audit_logs, lastStatusOp>>
       /\ UNCHANGED apiUntouched
    \* lines 209-216: status INACTIVE; the error is thrown when the row is
    \* gone
    \/ /\ calls[s].op = "disableRule"
       /\ calls[s].pc = "update"
       /\ LET id == calls[s].id
          IN IF id \in DOMAIN rulesTable
             THEN LET data == UpdateRow(rulesTable[id], [status |-> "INACTIVE"])
                  IN /\ rulesTable' = [rulesTable EXCEPT ![id] = data]
                     /\ calls' = [calls EXCEPT ![s].pc = "audit",
                                               ![s].local = Append(@, data)]
                     /\ lastStatusOp' = [lastStatusOp EXCEPT ![id] = "disableRule"]
             ELSE /\ calls' = [calls EXCEPT ![s] = Idle("threw")]
                  /\ UNCHANGED <<rulesTable, lastStatusOp>>
       /\ UNCHANGED <<rule_versions, audit_logs, started>>
       /\ UNCHANGED apiUntouched
    \* lines 218-227: the audit entry, return
    \/ /\ calls[s].op = "disableRule"
       /\ calls[s].pc = "audit"
       /\ audit_logs' = Append(audit_logs,
                               AuditRow(calls[s].id, "DISABLE",
                                        <<calls[s].local[1]>>, <<calls[s].local[2]>>))
       /\ calls' = [calls EXCEPT ![s] = Idle("returned")]
       /\ UNCHANGED <<rulesTable, rule_versions, started, lastStatusOp>>
       /\ UNCHANGED apiUntouched

\* the rows of rule_versions with the given rule_id and version
VersionRows(id, version) ==
    SelectSeq(rule_versions, LAMBDA row : row.rule_id = id /\ row.version = version)

\* the version argument of rollbackRule: a version the rule's history
\* lists, or one it does not (0)
RollbackVersions(id) ==
    { rule_versions[i].version :
         i \in { j \in 1..Len(rule_versions) : rule_versions[j].rule_id = id } }
       \cup {0}

\* rollbackRule restoring the snapshot's status with its content
RollbackValues_KeepsStatus(snapshot, before) ==
    [f \in ContentFields \cup {"status", "version"} |->
        IF f = "version"
        THEN (IF before = <<>> THEN 1 ELSE OrNumber(before[1].version, 1)) + 1
        ELSE snapshot[f]]

\* lines 298-308: what rollbackRule writes: the snapshot's content, status
\* DRAFT, version the one read + 1; before is the row read, or nothing
\* (null)
RollbackValues(snapshot, before) ==
    [f \in ContentFields \cup {"status", "version"} |->
        IF f = "status" THEN "DRAFT"
        ELSE IF f = "version"
             THEN (IF before = <<>> THEN 1 ELSE OrNumber(before[1].version, 1)) + 1
        ELSE snapshot[f]]

\* rollbackRule(id, version) by session s
rollbackRule(s) ==
    \* lines 284-291: .single() gives the row when exactly one matches and
    \* null otherwise; null is 'Version not found'
    \/ /\ CanStart(s)
       /\ \E id \in DOMAIN lastStatusOp \cup {"no-such-id"} :
             \E version \in RollbackVersions(id) :
                LET found == VersionRows(id, version)
                IN calls' = [calls EXCEPT ![s] =
                               IF Len(found) # 1
                               THEN Idle("threw")
                               ELSE Call("rollbackRule", "select", id,
                                         <<version>>, <<found[1]>>)]
       /\ started' = started + 1
       /\ UNCHANGED <<rulesTable, rule_versions, audit_logs, lastStatusOp>>
       /\ UNCHANGED apiUntouched
    \* line 294: read the row as it is now (null when it is gone)
    \/ /\ calls[s].op = "rollbackRule"
       /\ calls[s].pc = "select"
       /\ calls' = [calls EXCEPT ![s].pc = "update",
                                 ![s].local = Append(@, IF calls[s].id \in DOMAIN rulesTable
                                                        THEN <<rulesTable[calls[s].id]>>
                                                        ELSE <<>>)]
       /\ UNCHANGED <<rulesTable, rule_versions, audit_logs, started, lastStatusOp>>
       /\ UNCHANGED apiUntouched
    \* lines 296-313: write the values; the error is thrown when the row is
    \* gone
    \/ /\ calls[s].op = "rollbackRule"
       /\ calls[s].pc = "update"
       /\ LET id == calls[s].id
          IN IF id \in DOMAIN rulesTable
             THEN LET data == UpdateRow(rulesTable[id],
                                        RollbackValues(calls[s].local[1].snapshot,
                                                       calls[s].local[2]))
                  IN /\ rulesTable' = [rulesTable EXCEPT ![id] = data]
                     /\ calls' = [calls EXCEPT ![s].pc = "audit",
                                               ![s].local = Append(@, data)]
                     /\ lastStatusOp' = [lastStatusOp EXCEPT ![id] = "rollbackRule"]
             ELSE /\ calls' = [calls EXCEPT ![s] = Idle("threw")]
                  /\ UNCHANGED <<rulesTable, lastStatusOp>>
       /\ UNCHANGED <<rule_versions, audit_logs, started>>
       /\ UNCHANGED apiUntouched
    \* lines 315-324: the audit entry, return
    \/ /\ calls[s].op = "rollbackRule"
       /\ calls[s].pc = "audit"
       /\ audit_logs' = Append(audit_logs,
                               AuditRow(calls[s].id, "ROLLBACK",
                                        calls[s].local[2], <<calls[s].local[3]>>))
       /\ calls' = [calls EXCEPT ![s] = Idle("returned")]
       /\ UNCHANGED <<rulesTable, rule_versions, started, lastStatusOp>>
       /\ UNCHANGED apiUntouched

\* deleteRule(id) by session s
deleteRule(s) ==
    \* line 328: read the row for the audit entry (null when there is none;
    \* nothing tests it)
    \/ /\ CanStart(s)
       /\ \E id \in DOMAIN lastStatusOp \cup {"no-such-id"} :
             calls' = [calls EXCEPT ![s] =
                          Call("deleteRule", "delete", id, <<>>,
                               IF id \in DOMAIN rulesTable THEN <<rulesTable[id]>> ELSE <<>>)]
       /\ started' = started + 1
       /\ UNCHANGED <<rulesTable, rule_versions, audit_logs, lastStatusOp>>
       /\ UNCHANGED apiUntouched
    \* lines 330-331: delete the row, and with it its rule_versions rows
    \* (ON DELETE CASCADE); no row to delete is no error
    \/ /\ calls[s].op = "deleteRule"
       /\ calls[s].pc = "delete"
       /\ LET id == calls[s].id
          IN /\ rulesTable' = [r \in DOMAIN rulesTable \ {id} |-> rulesTable[r]]
             /\ rule_versions' = SelectSeq(rule_versions, LAMBDA row : row.rule_id # id)
             /\ lastStatusOp' = [r \in DOMAIN lastStatusOp |->
                                    IF r = id THEN "deleteRule" ELSE lastStatusOp[r]]
       /\ calls' = [calls EXCEPT ![s].pc = "audit"]
       /\ UNCHANGED <<audit_logs, started>>
       /\ UNCHANGED apiUntouched
    \* lines 333-339: the audit entry, return
    \/ /\ calls[s].op = "deleteRule"
       /\ calls[s].pc = "audit"
       /\ audit_logs' = Append(audit_logs,
                               AuditRow(calls[s].id, "DELETE", calls[s].local, <<>>))
       /\ calls' = [calls EXCEPT ![s] = Idle("returned")]
       /\ UNCHANGED <<rulesTable, rule_versions, started, lastStatusOp>>
       /\ UNCHANGED apiUntouched

\* the sessions that call the API
Sessions == {"s1", "s2"}

\* the calls of one session
Api(s) ==
    \/ createRule(s)
    \/ cloneRule(s)
    \/ updateRule(s)
    \/ publishRule(s)
    \/ disableRule(s)
    \/ rollbackRule(s)
    \/ deleteRule(s)

\* one manager: the calls run one after the other
LifecycleSpec == InitApi({"s1"}) /\ [][Api("s1")]_vars

\* two managers: their calls interleave at the database
ApiSpec == InitApi(Sessions) /\ [][\E s \in Sessions : Api(s)]_vars

-----------------------------------------------------------------------------
(* Properties: definitions shared by the claims *)

EvalPcs == {"call", "loop", "effects", "done"}

\* the fields of a profile value other than last_updated
Core(p) == [customer_id |-> p.customer_id, static_data |-> p.static_data,
            behavioral |-> p.behavioral, scores |-> p.scores, tags |-> p.tags]

\* p and q agree on every field but last_updated
SameButLastUpdated(p, q) == Core(p) = Core(q)

\* the number scores[s] of the profile value p, 0 when s is absent
ScoreOr0(p, s) == IF s \in DOMAIN p.scores[2] THEN p.scores[2][s][2] ELSE 0

\* what one effect does to a profile value: a well-formed scoreDelta adds
\* its delta to the score (0 when absent), addTag appends an absent tag,
\* removeTag takes out the first occurrence; anything else changes nothing
ReplayEffect(p, e) ==
    CASE e.type = "scoreDelta" /\ Truthy(e.score) /\ e.delta[1] # "undef" ->
            [p EXCEPT !.scores =
                Obj((e.score[2] :> Num(ScoreOr0(p, e.score[2]) + e.delta[2])) @@ p.scores[2])]
      [] e.type = "addTag" /\ Truthy(e.tag) /\ ~ArrayIncludes(p.tags[2], e.tag) ->
            [p EXCEPT !.tags = Arr(Append(p.tags[2], e.tag))]
      [] e.type = "removeTag" /\ Truthy(e.tag) /\ ArrayIncludes(p.tags[2], e.tag) ->
            [p EXCEPT !.tags = Arr(Splice1(p.tags[2], IndexOf(p.tags[2], e.tag)))]
      [] OTHER -> p

RECURSIVE ReplayEffects(_, _)
ReplayEffects(p, es) ==
    IF es = <<>> THEN p ELSE ReplayEffects(ReplayEffect(p, Head(es)), Tail(es))

RECURSIVE ReplayFirings(_, _)
\* p after the effects of the rules of the firings fs, in order
ReplayFirings(p, fs) ==
    IF fs = <<>> THEN p
    ELSE ReplayFirings(ReplayEffects(p, Head(fs).rule.effects), Tail(fs))

\* the firings recorded before the k-th rule was considered
FiringsBefore(k) == SelectSeq(firings, LAMBDA f : f.check < k)

\* the firings for events before the i-th
FiringsBeforeEvent(i) == SelectSeq(firings, LAMBDA f : f.event < i)

\* the position of the rule with this id in the rules argument
PositionInRules(id) == CHOOSE k \in 1..Len(rules) : rules[k].id = id

Eligible(r, event) == r.status = "ACTIVE" /\ r.event = event.type

\* the context evaluateRules would build from the profile value p
ContextOf(p, event) == buildContext(HeapOf(p), ProfileAddr, event)

AllConditionsHold(r, ctx) ==
    \A i \in 1..Len(r.conditions) :
        checkCondition(getByPath(ctx, r.conditions[i].source),
                       r.conditions[i].op, r.conditions[i].value)

-----------------------------------------------------------------------------
(* C1 *)

\* C1: a rule fires for an event (a trace entry is appended, its effects are
\* applied) only if its status is ACTIVE and its event equals the event's
\* type; a rule that is not ACTIVE, or whose event is the type of no event,
\* is in no trace entry, and the running profile is exactly the caller's
\* profile with the effects of the recorded firings applied.
C1_FiresOnlyActiveMatching ==
    pc \in EvalPcs =>
      /\ Len(firings) = Len(trace)
      /\ \A i \in 1..Len(trace) :
            /\ trace[i].ruleId = firings[i].rule.id
            /\ \E k \in 1..Len(rules) : rules[k] = firings[i].rule
            /\ firings[i].rule.status = "ACTIVE"
            /\ firings[i].rule.event = events[firings[i].event].type
      /\ \A k \in 1..Len(rules) :
            (\/ rules[k].status # "ACTIVE"
             \/ \A e \in 1..Len(events) : events[e].type # rules[k].event)
            => \A i \in 1..Len(trace) : trace[i].ruleId # rules[k].id
      /\ pc = "effects" =>
            /\ matchingRules[ruleIdx + 1].status = "ACTIVE"
            /\ matchingRules[ruleIdx + 1].event = events[eventIdx].type
      /\ pc \in {"loop", "done"} =>
            SameButLastUpdated(Deref(heap, currentProfile),
                               ReplayFirings(callSnap, firings))

\* a finished call in which a rule fired although the list also held a rule
\* that is not ACTIVE on an event type that occurred
C1_Witness ==
    /\ pc = "done"
    /\ trace # <<>>
    /\ \E k \in 1..Len(rules), e \in 1..Len(events) :
          rules[k].status # "ACTIVE" /\ rules[k].event = events[e].type

-----------------------------------------------------------------------------
(* C2 *)

\* C2: within one event the eligible rules are considered, and so the trace
\* entries produced, in descending priority, rules of equal priority in the
\* order of the rules argument.
C2_PriorityOrderWithinEvent ==
    pc \in EvalPcs =>
      /\ \A i, j \in 1..Len(trace) :
            (i < j /\ firings[i].event = firings[j].event) =>
               LET a == PositionInRules(trace[i].ruleId)
                   b == PositionInRules(trace[j].ruleId)
               IN \/ rules[a].priority > rules[b].priority
                  \/ rules[a].priority = rules[b].priority /\ a < b
      /\ \A i, j \in 1..Len(checks) :
            (i < j /\ checks[i].event = checks[j].event) =>
               LET a == PositionInRules(checks[i].rule.id)
                   b == PositionInRules(checks[j].rule.id)
               IN \/ rules[a].priority > rules[b].priority
                  \/ rules[a].priority = rules[b].priority /\ a < b

\* two rules of equal priority fired for the same event
C2_Witness ==
    /\ pc = "done"
    /\ \E i, j \in 1..Len(trace) :
          /\ i < j
          /\ firings[i].event = firings[j].event
          /\ firings[i].rule.priority = firings[j].rule.priority

-----------------------------------------------------------------------------
(* C3 *)

\* C3: the context a rule's conditions are evaluated against is built from
\* the running profile as left by every rule that fired before it (for the
\* same event in particular): its scores, tags, static and behavioral data
\* are those of the caller's profile with the earlier firings applied, and
\* the outcome of the conditions is the outcome against that profile, not
\* the initial one.
C3_ContextSeesEarlierFirings ==
    pc \in EvalPcs =>
      \A k \in 1..Len(checks) :
         LET seen == ContextOf(ReplayFirings(callSnap, FiringsBefore(k)),
                               events[checks[k].event])
         IN /\ checks[k].context[2][K_profile] = seen[2][K_profile]
            /\ checks[k].met = AllConditionsHold(checks[k].rule, seen)

\* a rule fired on a condition that fails on the initial profile and holds
\* only because a rule fired earlier for the same event
C3_Witness ==
    /\ pc = "done"
    /\ \E k \in 1..Len(checks) :
          /\ checks[k].met
          /\ \E i \in 1..Len(firings) :
                firings[i].check < k /\ firings[i].event = checks[k].event
          /\ ~AllConditionsHold(checks[k].rule,
                                ContextOf(callSnap, events[checks[k].event]))

-----------------------------------------------------------------------------
(* C4 *)

\* C4: events are processed in input order: the firings, and the rules
\* considered, are grouped by event in increasing event index; each rule is
\* evaluated on the payload of the event at that index; and the profile
\* with which event i+1 begins is the caller's profile with every firing
\* for events 1..i applied.
C4_EventsInInputOrder ==
    pc \in EvalPcs =>
      /\ \A i, j \in 1..Len(firings) : i < j => firings[i].event <= firings[j].event
      /\ \A i, j \in 1..Len(checks) : i < j => checks[i].event <= checks[j].event
      /\ \A k \in 1..Len(checks) :
            /\ checks[k].event \in 1..eventIdx
            /\ checks[k].context[2][K_event] = events[checks[k].event].payload
            /\ checks[k].rule.event = events[checks[k].event].type
      /\ (pc \in {"loop", "effects"} /\ eventIdx >= 1) =>
            /\ SameButLastUpdated(eventSnap,
                                  ReplayFirings(callSnap, FiringsBeforeEvent(eventIdx)))
            /\ \A k \in 1..Len(checks) :
                  (checks[k].event = eventIdx
                   /\ \A i \in 1..Len(firings) :
                         firings[i].check < k => firings[i].event < eventIdx)
                  => /\ checks[k].context[2][K_profile][2][K_scores] = eventSnap.scores
                     /\ checks[k].context[2][K_profile][2][K_tags] = eventSnap.tags

\* a rule fired for the second event on a condition that fails on the
\* initial profile, after a rule fired for the first event
C4_Witness ==
    /\ pc = "done"
    /\ \E i, j \in 1..Len(firings) :
          /\ firings[i].event = 1
          /\ firings[j].event = 2
          /\ events[1] # events[2]
          /\ ~AllConditionsHold(firings[j].rule, ContextOf(callSnap, events[2]))

-----------------------------------------------------------------------------
(* C5 *)

\* C5: every eligible rule is considered for every event of its type, and a
\* considered rule fires if and only if each of its conditions holds
\* against the context built for it; with no conditions it fires.
C5_FiresIffAllConditions ==
    pc \in EvalPcs =>
      /\ \A k \in 1..Len(checks) :
            /\ checks[k].met = AllConditionsHold(checks[k].rule, checks[k].context)
            /\ checks[k].rule.conditions = <<>> => checks[k].met
            /\ checks[k].met <=>
                  \/ \E i \in 1..Len(firings) : firings[i].check = k
                  \/ k = Len(checks) /\ pc = "effects"
      /\ pc = "done" =>
            \A e \in 1..Len(events), r \in 1..Len(rules) :
               Eligible(rules[r], events[e]) =>
                  \E k \in 1..Len(checks) :
                     checks[k].event = e /\ checks[k].rule = rules[r]

\* a call in which a rule without conditions fired and a rule whose first
\* condition held and second did not was passed over
C5_Witness ==
    /\ pc = "done"
    /\ \E i \in 1..Len(firings) : firings[i].rule.conditions = <<>>
    /\ \E k \in 1..Len(checks) :
          /\ ~checks[k].met
          /\ Len(checks[k].rule.conditions) = 2
          /\ ConditionHolds(checks[k].rule.conditions[1], checks[k].context)

-----------------------------------------------------------------------------
(* C6 *)

\* C6: when the rules list holds no ACTIVE rule, evaluateRules returns an
\* empty trace and a profile equal to the caller's in every field but
\* last_updated.
C6_NoActiveRuleNoChange ==
    (pc = "done" /\ \A k \in 1..Len(rules) : rules[k].status # "ACTIVE") =>
       /\ trace = <<>>
       /\ SameButLastUpdated(Deref(heap, currentProfile), callSnap)

\* a finished call with rules, none ACTIVE, one of them on the type of an
\* event that was processed, and a new last_updated
C6_Witness ==
    /\ pc = "done"
    /\ rules # <<>>
    /\ \A k \in 1..Len(rules) : rules[k].status # "ACTIVE"
    /\ \E k \in 1..Len(rules), e \in 1..Len(events) : rules[k].event = events[e].type
    /\ heap[currentProfile].last_updated # callSnap.last_updated

-----------------------------------------------------------------------------
(* C7 *)

\* C7: the profile object the caller passed to evaluateRules holds, at
\* every point of the call and after it, what it held when the call was
\* made, and the running (returned) profile shares no cell with it; the
\* profile passed to applyEffect is as it was before the call and the
\* returned profile shares no cell with it.
C7_InputProfileNotMutated ==
    /\ pc \in EvalPcs =>
          /\ Deref(heap, initialProfile) = callSnap
          /\ currentProfile # 0 =>
                Cells(heap, currentProfile) \cap Cells(heap, initialProfile) = {}
    /\ \A k \in 1..Len(fx) :
          /\ Deref(heap, fx[k].in) = fx[k].before
          /\ Cells(heap, fx[k].out) \cap Cells(heap, fx[k].in) = {}

\* a finished call whose returned profile differs from the caller's in
\* scores, tags and last_updated
C7_Witness ==
    /\ pc = "done"
    /\ Deref(heap, currentProfile).scores # callSnap.scores
    /\ Deref(heap, currentProfile).tags # callSnap.tags
    /\ heap[currentProfile].last_updated # callSnap.last_updated

-----------------------------------------------------------------------------
(* C8 *)

\* C8: a condition whose source path resolves to undefined or null is
\* false whatever the operator and the target value, and a rule with such
\* a condition does not fire.
C8_AbsentSourceIsFalse ==
    /\ \A k \in 1..Len(cond) :
          cond[k].sourceValue[1] \in {"undef", "null"} => ~cond[k].result
    /\ \A k \in 1..Len(checks) :
          (\E i \in 1..Len(checks[k].rule.conditions) :
              getByPath(checks[k].context, checks[k].rule.conditions[i].source)[1]
                 \in {"undef", "null"})
          => /\ ~checks[k].met
             /\ \A i \in 1..Len(firings) : firings[i].check # k

\* the source path resolves to undefined and the condition asks whether it
\* equals the text "undefined"
C8_Witness ==
    /\ cond # <<>>
    /\ cond[1].sourceValue = Undefined
    /\ cond[1].condition.op = "="
    /\ cond[1].condition.value = Str(<<"u","n","d","e","f","i","n","e","d">>)
    /\ ~cond[1].result

-----------------------------------------------------------------------------
(* C9 *)

\* the call c of applyEffect left scores[s] = (old scores[s] or 0) + d and
\* every other score as it was
AddsDelta(c) ==
    LET s == c.effect.score[2]
        d == c.effect.delta[2]
        after == Deref(heap, c.out)
    IN /\ DOMAIN after.scores[2] = DOMAIN c.before.scores[2] \cup {s}
       /\ after.scores[2][s] = Num(ScoreOr0(c.before, s) + d)
       /\ \A o \in DOMAIN c.before.scores[2] : o # s => after.scores[2][o] = c.before.scores[2][o]

\* C9 as stated: a scoreDelta effect with a score name s and an integer
\* delta d sets scores[s] to (previous scores[s] or 0) + d, unclamped, and
\* changes no other score.
C9_ScoreDeltaAdds_AsStated ==
    \A k \in 1..Len(fx) :
       (fx[k].effect.type = "scoreDelta"
        /\ fx[k].effect.score[1] = "str"
        /\ fx[k].effect.delta[1] = "num")
       => AddsDelta(fx[k])

\* C9 amended: the same for a non-empty score name s (with the empty name
\* the effect is a no-op).
C9_ScoreDeltaAdds ==
    \A k \in 1..Len(fx) :
       (fx[k].effect.type = "scoreDelta"
        /\ fx[k].effect.score[1] = "str"
        /\ fx[k].effect.score[2] # <<>>
        /\ fx[k].effect.delta[1] = "num")
       => AddsDelta(fx[k])

\* a negative delta applied to a score the profile does not have, leaving
\* a negative score
C9_Witness ==
    \E k \in 1..Len(fx) :
       /\ fx[k].effect.type = "scoreDelta"
       /\ fx[k].effect.score = Str(S_hi)
       /\ S_hi \notin DOMAIN fx[k].before.scores[2]
       /\ fx[k].effect.delta[1] = "num"
       /\ fx[k].effect.delta[2] < 0
       /\ Deref(heap, fx[k].out).scores[2][S_hi][2] < 0

-----------------------------------------------------------------------------
(* C10 *)

\* the number of occurrences of x in the array a
Occurrences(a, x) == Cardinality({i \in 1..Len(a) : a[i] = x})

\* calls k-1 and k of applyEffect applied the same addTag(t): t occurs once
\* after the second, the tags are those after the first, and only the first
\* returned a description
SecondAddIsNoOp(k) ==
    LET first == Deref(heap, fx[k - 1].out)
        second == Deref(heap, fx[k].out)
    IN /\ Occurrences(second.tags[2], fx[k].effect.tag) = 1
       /\ second.tags = first.tags
       /\ fx[k - 1].description # <<>>
       /\ fx[k].description = <<>>

\* C10 as stated: addTag(t) applied twice in succession to a profile
\* without t leaves exactly one t, the list of the first application, and
\* only the first application returns a description.
C10_AddTagIdempotent_AsStated ==
    \A k \in 2..Len(fx) :
       (fx[k].effect.type = "addTag"
        /\ fx[k - 1].effect = fx[k].effect
        /\ fx[k].effect.tag[1] = "str"
        /\ ~ArrayIncludes(fx[k - 1].before.tags[2], fx[k].effect.tag))
       => SecondAddIsNoOp(k)

\* C10 amended: the same for a non-empty tag t (the empty tag is never
\* added and no application of it returns a description).
C10_AddTagIdempotent ==
    \A k \in 2..Len(fx) :
       (fx[k].effect.type = "addTag"
        /\ fx[k - 1].effect = fx[k].effect
        /\ fx[k].effect.tag[1] = "str"
        /\ fx[k].effect.tag[2] # <<>>
        /\ ~ArrayIncludes(fx[k - 1].before.tags[2], fx[k].effect.tag))
       => SecondAddIsNoOp(k)

\* the same non-empty tag added twice in succession to a profile that has
\* another tag and not this one
C10_Witness ==
    \E k \in 2..Len(fx) :
       /\ fx[k - 1].before.tags[2] # <<>>
       /\ fx[k].effect.type = "addTag"
       /\ fx[k - 1].effect = fx[k].effect
       /\ fx[k].effect.tag[1] = "str"
       /\ fx[k].effect.tag[2] # <<>>
       /\ ~ArrayIncludes(fx[k - 1].before.tags[2], fx[k].effect.tag)

-----------------------------------------------------------------------------
(* C11 *)

\* C11: removeTag(t) applied to a profile whose tags do not contain t
\* returns an empty description and a profile whose tags list is the
\* input's.
C11_RemoveAbsentTagIsNoOp ==
    \A k \in 1..Len(fx) :
       (fx[k].effect.type = "removeTag"
        /\ fx[k].effect.tag[1] = "str"
        /\ ~ArrayIncludes(fx[k].before.tags[2], fx[k].effect.tag))
       => /\ fx[k].description = <<>>
          /\ Deref(heap, fx[k].out).tags = fx[k].before.tags

\* removeTag of a tag the profile does not have, applied to a profile that
\* has another tag
C11_Witness ==
    \E k \in 1..Len(fx) :
       /\ fx[k].effect.type = "removeTag"
       /\ fx[k].effect.tag = Str(T_stable)
       /\ fx[k].before.tags[2] # <<>>
       /\ ~ArrayIncludes(fx[k].before.tags[2], fx[k].effect.tag)

-----------------------------------------------------------------------------
(* C12 *)

\* C12: a second call evaluateRules(rules, P1, []) on the profile P1 the
\* first call returned gives an empty trace and a profile equal to P1 in
\* every field but last_updated.
C12_RoundTrip ==
    (pc = "done" /\ firstCall # <<>>) =>
       /\ trace = <<>>
       /\ SameButLastUpdated(Deref(heap, currentProfile), firstCall[1].newProfile)

\* the second call returned with another last_updated, after a first call
\* in which rules fired and that returned a profile with scores and tags
C12_Witness ==
    /\ pc = "done"
    /\ firstCall # <<>>
    /\ firstCall[1].trace # <<>>
    /\ firstCall[1].newProfile.tags[2] # <<>>
    /\ firstCall[1].newProfile.scores[2] # <<>>
    /\ heap[currentProfile].last_updated # firstCall[1].newProfile.last_updated

-----------------------------------------------------------------------------
(* C13 *)

\* the description one effect gives on the profile value p: a well-formed
\* scoreDelta always describes itself, addTag and removeTag only when they
\* change the tags, anything else gives the empty text
ExpectedDescription(p, e) ==
    CASE e.type = "scoreDelta" /\ Truthy(e.score) /\ e.delta[1] # "undef" ->
            ScoreDescription(e.score, e.delta, Num(ScoreOr0(p, e.score[2])),
                             Num(ScoreOr0(p, e.score[2]) + e.delta[2]))
      [] e.type = "addTag" /\ Truthy(e.tag) /\ ~ArrayIncludes(p.tags[2], e.tag) ->
            AddedDescription(e.tag)
      [] e.type = "removeTag" /\ Truthy(e.tag) /\ ArrayIncludes(p.tags[2], e.tag) ->
            RemovedDescription(e.tag)
      [] OTHER -> <<>>

RECURSIVE ExpectedText(_, _, _)
\* the non-empty descriptions of the effects es applied in order from p,
\* each but the first preceded by "; ", after the text so far
ExpectedText(p, es, sofar) ==
    IF es = <<>> THEN sofar
    ELSE LET d == ExpectedDescription(p, Head(es))
             next == ReplayEffect(p, Head(es))
         IN IF d = <<>> THEN ExpectedText(next, Tail(es), sofar)
            ELSE IF sofar = <<>> THEN ExpectedText(next, Tail(es), d)
            ELSE ExpectedText(next, Tail(es), sofar \o <<";", " ">> \o d)

\* C13: each firing (a considered rule whose conditions were all met)
\* appends exactly one trace entry, in firing order, with the rule's id and
\* name and, as effectDescription, the non-empty descriptions of its
\* effects in effect order joined by "; ".
C13_OneTraceEntryPerFiring ==
    pc \in EvalPcs =>
      /\ Len(trace) = Len(firings)
      /\ \A i, j \in 1..Len(firings) : i < j => firings[i].check < firings[j].check
      /\ \A k \in 1..Len(checks) :
            Cardinality({i \in 1..Len(trace) : firings[i].check = k}) =
               IF checks[k].met /\ ~(k = Len(checks) /\ pc = "effects") THEN 1 ELSE 0
      /\ \A i \in 1..Len(trace) :
            /\ firings[i].rule = checks[firings[i].check].rule
            /\ trace[i].ruleId = firings[i].rule.id
            /\ trace[i].ruleName = firings[i].rule.name
            /\ trace[i].effectDescription =
                  ExpectedText(ReplayFirings(callSnap, SubSeq(firings, 1, i - 1)),
                               firings[i].rule.effects, <<>>)

\* a finished call with a firing whose first effect is a no-op and whose
\* other effects are described, and a firing whose effects are all no-ops
C13_Witness ==
    /\ pc = "done"
    /\ \E i \in 1..Len(trace) :
          /\ Len(firings[i].rule.effects) = 3
          /\ ~Truthy(firings[i].rule.effects[1].score)
          /\ trace[i].effectDescription =
                ScoreDescription(Str(S_hi), Num(7), Num(0), Num(7))
                   \o <<";", " ">> \o RemovedDescription(Str(T_vip))
    /\ \E i \in 1..Len(trace) :
          /\ firings[i].rule.effects # <<>>
          /\ trace[i].effectDescription = <<>>

-----------------------------------------------------------------------------
(* C14 *)

\* the effect lacks a field its type requires, or its type is not known
Malformed(e) ==
    \/ e.type = "scoreDelta" /\ (e.score[1] = "undef" \/ e.delta[1] = "undef")
    \/ e.type \in {"addTag", "removeTag"} /\ e.tag[1] = "undef"
    \/ e.type \notin {"scoreDelta", "addTag", "removeTag"}

\* C14: applyEffect on an effect with a missing required field or an
\* unknown type returns a profile equal to its input and an empty
\* description; and in evaluateRules every effect of a firing rule is
\* applied, the ones after such an effect included: while the effects are
\* applied the running profile is the profile before the firing with the
\* effects so far replayed, and after it with all of them.
C14_MalformedEffectIsNoOp ==
    /\ \A k \in 1..Len(fx) :
          Malformed(fx[k].effect) =>
             /\ fx[k].description = <<>>
             /\ Deref(heap, fx[k].out) = fx[k].before
    /\ pc = "effects" =>
          /\ effectIdx <= Len(matchingRules[ruleIdx + 1].effects)
          /\ SameButLastUpdated(
                Deref(heap, currentProfile),
                ReplayEffects(ReplayFirings(callSnap, firings),
                              SubSeq(matchingRules[ruleIdx + 1].effects, 1, effectIdx)))
    /\ pc \in {"loop", "done"} =>
          /\ \A i \in 1..Len(firings) :
                \A j \in 1..Len(firings[i].rule.effects) :
                   Malformed(firings[i].rule.effects[j]) =>
                      ReplayEffect(callSnap, firings[i].rule.effects[j]) = callSnap
          /\ SameButLastUpdated(Deref(heap, currentProfile),
                                ReplayFirings(callSnap, firings))

\* a finished call in which a rule fired whose first effect is a scoreDelta
\* without score, and whose later effects raised a score and removed a tag
C14_Witness ==
    /\ pc = "done"
    /\ \E i \in 1..Len(firings) :
          LET es == firings[i].rule.effects IN
          /\ Len(es) = 3
          /\ Malformed(es[1])
          /\ ~Malformed(es[2])
          /\ ScoreOr0(Deref(heap, currentProfile), es[2].score[2])
                # ScoreOr0(callSnap, es[2].score[2])
          /\ ArrayIncludes(callSnap.tags[2], es[3].tag)
          /\ ~ArrayIncludes(Deref(heap, currentProfile).tags[2], es[3].tag)

-----------------------------------------------------------------------------
(* Properties of recommend: definitions shared by the claims *)

\* the position of the product with this id in the catalogue
PositionInCatalogue(id) == CHOOSE k \in 1..Len(products) : products[k].id = id

\* the profile has a tag of the product's exclusions
Excluded(product, profile) ==
    /\ product.exclusions[1] = "arr"
    /\ \E i \in 1..Len(product.exclusions[2]) :
          \E j \in 1..Len(profile.tags[2]) : profile.tags[2][j] = product.exclusions[2][i]

-----------------------------------------------------------------------------
(* C15 *)

\* C15: in the list recommend returns every SHOWN entry precedes every
\* HIDDEN entry, and the rank of the entry at position i (from 1) is i.
C15_ShownFirstRanksContiguous ==
    pc = "recommended" =>
      /\ \A i, j \in 1..Len(recommendations) :
            (recommendations[i].decision = "HIDDEN" /\ recommendations[j].decision = "SHOWN")
            => j < i
      /\ \A i \in 1..Len(recommendations) : recommendations[i].rank = i

\* a list with SHOWN and HIDDEN entries in which a HIDDEN entry has a
\* higher score than a SHOWN one
C15_Witness ==
    /\ pc = "recommended"
    /\ \E i, j \in 1..Len(recommendations) :
          /\ recommendations[i].decision = "SHOWN"
          /\ recommendations[j].decision = "HIDDEN"
          /\ recommendations[j].score[2] > recommendations[i].score[2]
          /\ recommendations[j].rank = recommendations[i].rank + 1

-----------------------------------------------------------------------------
(* C16 *)

\* C16: recommend returns one entry for each product with active = true
\* and none for a product with active = false: the products of the entries
\* are the active products of the catalogue, each once.
C16_ExactlyTheActiveProducts ==
    pc = "recommended" =>
      /\ \A k \in 1..Len(products) :
            Cardinality({i \in 1..Len(recommendations) :
                            recommendations[i].product = products[k]})
               = IF products[k].active THEN 1 ELSE 0
      /\ \A i \in 1..Len(recommendations) :
            \E k \in 1..Len(products) : recommendations[i].product = products[k]
      /\ Len(recommendations) = Cardinality({k \in 1..Len(products) : products[k].active})

\* a catalogue with an inactive product between active ones
C16_Witness ==
    /\ pc = "recommended"
    /\ Len(products) = 3
    /\ ~products[2].active
    /\ Len(recommendations) = 2

-----------------------------------------------------------------------------
(* C17 *)

\* the first tag, in the order of the product's exclusions, that the
\* profile has
FirstExclusion(product, profile) ==
    LET ex == product.exclusions[2]
        present(k) == \E j \in 1..Len(profile.tags[2]) : profile.tags[2][j] = ex[k]
    IN ex[CHOOSE k \in 1..Len(ex) : present(k) /\ \A m \in 1..(k - 1) : ~present(m)]

\* C17: the entry of an active product with an exclusion tag in the
\* profile's tags has decision HIDDEN, score 0, an empty scoreBreakdown and
\* as its only explanation the line naming the first such tag in the order
\* of the product's exclusions, whatever its thresholds and weights.
C17_ExcludedProduct ==
    pc = "recommended" =>
      \A i \in 1..Len(recommendations) :
         Excluded(recommendations[i].product, recProfile) =>
            /\ recommendations[i].decision = "HIDDEN"
            /\ recommendations[i].score = Dec(0)
            /\ recommendations[i].scoreBreakdown[3] = <<>>
            /\ DOMAIN recommendations[i].scoreBreakdown[2] = {}
            /\ recommendations[i].why =
                  << ExcludedLine(FirstExclusion(recommendations[i].product, recProfile)) >>

\* an excluded product with thresholds and a weight on a score the profile
\* has, two of whose exclusions are in the profile's tags, in the other
\* order
C17_Witness ==
    /\ pc = "recommended"
    /\ \E i \in 1..Len(recommendations) :
          LET product == recommendations[i].product IN
          /\ Excluded(product, recProfile)
          /\ product.exclusions[2] = <<recProfile.tags[2][2], recProfile.tags[2][1]>>
          /\ product.required_scores[1] = "obj"
          /\ product.weight_by_score[1] = "obj"
          /\ recommendations[i].why = << ExcludedLine(recProfile.tags[2][2]) >>

-----------------------------------------------------------------------------
(* C18 *)

\* every threshold of the product's required_scores is met by the profile's
\* score, 0 when absent
ThresholdsMet(product, profile) ==
    product.required_scores[1] = "obj" =>
       \A s \in DOMAIN product.required_scores[2] :
          ScoreOr0(profile, s) >= product.required_scores[2][s][2]

\* C18: the decision for an active product is SHOWN if and only if none of
\* its exclusion tags is in the profile's tags and every threshold of
\* required_scores is met by the profile's score (0 when absent).
C18_ShownIffNoExclusionAndThresholds ==
    pc = "recommended" =>
      \A i \in 1..Len(recommendations) :
         /\ recommendations[i].decision \in {"SHOWN", "HIDDEN"}
         /\ recommendations[i].decision = "SHOWN" <=>
               /\ ~Excluded(recommendations[i].product, recProfile)
               /\ ThresholdsMet(recommendations[i].product, recProfile)

\* a product without thresholds is SHOWN, one whose threshold 0 is met by
\* an absent score is SHOWN, and one whose threshold is not met is HIDDEN
\* without being excluded
C18_Witness ==
    /\ pc = "recommended"
    /\ \E i, j, k \in 1..Len(recommendations) :
          /\ recommendations[i].decision = "SHOWN"
          /\ recommendations[i].product.required_scores = Undefined
          /\ recommendations[j].decision = "SHOWN"
          /\ recommendations[j].product.required_scores[1] = "obj"
          /\ \E s \in DOMAIN recommendations[j].product.required_scores[2] :
                s \notin DOMAIN recProfile.scores[2]
          /\ recommendations[k].decision = "HIDDEN"
          /\ ~Excluded(recommendations[k].product, recProfile)

-----------------------------------------------------------------------------
(* C19 *)

RECURSIVE SumOver(_, _, _)
\* the sum over the score names ks of the profile's score (0 when absent)
\* times the weight, in thousandths
SumOver(ks, weights, profile) ==
    IF ks = <<>> THEN 0
    ELSE ScoreOr0(profile, Head(ks)) * weights[Head(ks)][2] * 125
            + SumOver(Tail(ks), weights, profile)

WeightedSum(product, profile) ==
    IF product.weight_by_score[1] = "obj"
    THEN SumOver(product.weight_by_score[3], product.weight_by_score[2], profile)
    ELSE 0

\* every weight of the product is an integer
IntegerWeights(product) ==
    product.weight_by_score[1] = "obj" =>
       \A s \in DOMAIN product.weight_by_score[2] : product.weight_by_score[2][s][2] % 8 = 0

\* C19: the score of an active product that no exclusion tag hides, whether
\* its thresholds are met or not, is the weighted sum of the profile's
\* scores rounded to two decimals (a half goes up), and the sum itself when
\* the weights are integers; the score of a product hidden by an exclusion
\* tag is 0.
C19_ScoreIsWeightedSum ==
    pc = "recommended" =>
      \A i \in 1..Len(recommendations) :
         LET product == recommendations[i].product
             sum == WeightedSum(product, recProfile)
             score == recommendations[i].score[2]
         IN IF Excluded(product, recProfile)
            THEN score = 0
            ELSE /\ score % 10 = 0
                 /\ sum - 5 < score
                 /\ score <= sum + 5
                 /\ IntegerWeights(product) => score = sum

\* a product hidden by a failed threshold with a positive score, and a
\* product whose weighted sum 62.375 was rounded to 62.38
C19_Witness ==
    /\ pc = "recommended"
    /\ \E i, j \in 1..Len(recommendations) :
          /\ recommendations[i].decision = "HIDDEN"
          /\ ~Excluded(recommendations[i].product, recProfile)
          /\ recommendations[i].score[2] > 0
          /\ WeightedSum(recommendations[j].product, recProfile) = 62375
          /\ recommendations[j].score = Dec(62380)

-----------------------------------------------------------------------------
(* C20 *)

\* C20: among the entries with the same decision the scores do not
\* increase along the list, and entries of equal score are in the order
\* their products have in the catalogue.
C20_ScoreOrderStableTies ==
    pc = "recommended" =>
      \A i, j \in 1..Len(recommendations) :
         (i < j /\ recommendations[i].decision = recommendations[j].decision) =>
            \/ recommendations[i].score[2] > recommendations[j].score[2]
            \/ /\ recommendations[i].score[2] = recommendations[j].score[2]
               /\ PositionInCatalogue(recommendations[i].product.id)
                     < PositionInCatalogue(recommendations[j].product.id)

\* two entries of equal positive score in one partition, after an entry
\* the sort moved from the head of the catalogue to the tail
C20_Witness ==
    /\ pc = "recommended"
    /\ Len(recommendations) = 3
    /\ recommendations[1].decision = recommendations[2].decision
    /\ recommendations[1].score = recommendations[2].score
    /\ recommendations[1].score[2] > 0
    /\ recommendations[3].product = products[1]

-----------------------------------------------------------------------------
(* C22 *)

KnownOperators == {">", "<", ">=", "<=", "=", "contains", "in"}

\* C22: for a source value that is neither undefined nor null,
\* checkCondition returns false for an operator that is none of the seven,
\* and for 'in' with a target that is not a list.
C22_FailsClosed ==
    \A k \in 1..Len(cond) :
       cond[k].sourceValue[1] \notin {"undef", "null"} =>
          /\ cond[k].condition.op \notin KnownOperators => ~cond[k].result
          /\ (cond[k].condition.op = "in" /\ cond[k].condition.value[1] # "arr")
                => ~cond[k].result

\* 'in' asked of the number 65000 against the text "65000", which is no list
C22_Witness ==
    /\ cond # <<>>
    /\ cond[1].sourceValue = Num(65000)
    /\ cond[1].condition.op = "in"
    /\ cond[1].condition.value = Str(<<"6","5","0","0","0">>)
    /\ ~cond[1].result

-----------------------------------------------------------------------------
(* C23 *)

\* the score names of the product's required_scores, in their order
RequiredNames(product) ==
    IF product.required_scores[1] = "obj" THEN product.required_scores[3] ELSE <<>>

\* C23: for an active product that no exclusion tag hides, scoreBreakdown
\* has exactly the keys of required_scores, each with the profile's score
\* (0 when absent), whether its threshold is met or not, and why has one
\* line per required score, in their order: the pass line when the score
\* is at least the threshold, the fail line otherwise.
C23_BreakdownAndWhyPerThreshold ==
    pc = "recommended" =>
      \A i \in 1..Len(recommendations) :
         ~Excluded(recommendations[i].product, recProfile) =>
            LET names == RequiredNames(recommendations[i].product)
                req == recommendations[i].product.required_scores[2]
                breakdown == recommendations[i].scoreBreakdown
                why == recommendations[i].why
            IN /\ DOMAIN breakdown[2] = {names[n] : n \in 1..Len(names)}
               /\ breakdown[3] = names
               /\ \A n \in 1..Len(names) :
                     breakdown[2][names[n]] = Num(ScoreOr0(recProfile, names[n]))
               /\ Len(why) = Len(names)
               /\ \A n \in 1..Len(names) :
                     LET observed == Num(ScoreOr0(recProfile, names[n])) IN
                     why[n] = IF observed[2] >= req[names[n]][2]
                              THEN PassLine(names[n], observed, req[names[n]])
                              ELSE FailLine(names[n], observed, req[names[n]])

\* a product with two thresholds, the first met and the second not: both
\* observed scores are in the breakdown, a pass line and a fail line in why
C23_Witness ==
    /\ pc = "recommended"
    /\ \E i \in 1..Len(recommendations) :
          LET names == RequiredNames(recommendations[i].product)
              req == recommendations[i].product.required_scores[2]
          IN /\ ~Excluded(recommendations[i].product, recProfile)
             /\ Len(names) = 2
             /\ ScoreOr0(recProfile, names[1]) >= req[names[1]][2]
             /\ ScoreOr0(recProfile, names[2]) < req[names[2]][2]
             /\ recommendations[i].decision = "HIDDEN"
             /\ recommendations[i].scoreBreakdown[3] = names
             /\ Len(recommendations[i].why) = 2

-----------------------------------------------------------------------------
(* C24 *)

\* the fields of a profile value that no effect writes
Frame(p) == [customer_id |-> p.customer_id, static_data |-> p.static_data,
             behavioral |-> p.behavioral]

\* C24: evaluateRules never changes customer_id, static_data or behavioral:
\* throughout the call and in the returned profile they are those of the
\* caller's profile, and each single applyEffect returns a profile with the
\* customer_id, static_data and behavioral of the profile it was given.
C24_FrameFieldsUnchanged ==
    /\ (pc \in {"loop", "effects", "done"} =>
           Frame(Deref(heap, currentProfile)) = Frame(callSnap))
    /\ \A k \in 1..Len(fx) :
           Frame(Deref(heap, fx[k].out)) = Frame(fx[k].before)

\* a call that returned after a rule with a scoreDelta fired on a profile
\* with static data: the scores changed, the three fields did not
C24_Witness ==
    /\ pc = "done"
    /\ callSnap.static_data[2] # <<>>
    /\ \E i \in 1..Len(firings) :
          \E j \in 1..Len(firings[i].rule.effects) :
             firings[i].rule.effects[j].type = "scoreDelta"
    /\ Deref(heap, currentProfile).scores # callSnap.scores
    /\ Deref(heap, currentProfile).tags # callSnap.tags
    /\ Frame(Deref(heap, currentProfile)) = Frame(callSnap)

-----------------------------------------------------------------------------
(* C25 *)

\* the list a has no two equal members
NoDuplicates(a) == \A i, j \in 1..Len(a) : a[i] = a[j] => i = j

\* C25: if the tags of the profile evaluateRules is called with have no
\* duplicates, then the running profile's tags have none after every
\* effect application and in the returned profile; and each applyEffect
\* on a profile whose tags have no duplicates returns one whose tags have
\* none.
C25_TagsStayDeduplicated ==
    /\ (pc \in {"loop", "effects", "done"} /\ NoDuplicates(callSnap.tags[2]) =>
           NoDuplicates(Deref(heap, currentProfile).tags[2]))
    /\ \A k \in 1..Len(fx) :
           NoDuplicates(fx[k].before.tags[2]) =>
              NoDuplicates(Deref(heap, fx[k].out).tags[2])

\* a call that returned after two firings, one of which has an addTag of a
\* tag the running profile already had and one a removeTag
C25_Witness ==
    /\ pc = "done"
    /\ NoDuplicates(callSnap.tags[2])
    /\ Len(firings) >= 2
    /\ \E i \in 1..Len(firings) :
          \E j \in 1..Len(firings[i].rule.effects) :
             /\ firings[i].rule.effects[j].type = "addTag"
             /\ ArrayIncludes(
                   ReplayEffects(ReplayFirings(callSnap, SubSeq(firings, 1, i - 1)),
                                 SubSeq(firings[i].rule.effects, 1, j - 1)).tags[2],
                   firings[i].rule.effects[j].tag)
    /\ \E i \in 1..Len(firings) :
          \E j \in 1..Len(firings[i].rule.effects) :
             firings[i].rule.effects[j].type = "removeTag"
    /\ NoDuplicates(Deref(heap, currentProfile).tags[2])

-----------------------------------------------------------------------------
(* C26 *)

\* the k-th applyEffect call is removeTag(t) with a non-empty text t
RemovesTag(k) ==
    /\ fx[k].effect.type = "removeTag"
    /\ fx[k].effect.tag[1] = "str"
    /\ fx[k].effect.tag[2] # <<>>

\* a description is returned exactly when the tag was there before
DescribedIffPresent(k) ==
    (fx[k].description # <<>>) <=> ArrayIncludes(fx[k].before.tags[2], fx[k].effect.tag)

\* C26 as stated: after removeTag(t) with a non-empty t on any profile, the
\* returned profile's tags do not contain t, neither a condition
\* 'profile.tags contains t' nor a product exclusion on t matches the
\* returned profile, and a description is returned exactly when t was
\* present before.
C26_RemoveTagRemoves_AsStated ==
    \A k \in 1..Len(fx) :
       RemovesTag(k) =>
          LET out == Deref(heap, fx[k].out) IN
          /\ ~ArrayIncludes(out.tags[2], fx[k].effect.tag)
          /\ ~checkCondition(out.tags, "contains", fx[k].effect.tag)
          /\ ~HasExclusion(<<fx[k].effect.tag>>, out)
          /\ DescribedIffPresent(k)

\* C26 amended: after removeTag(t) with a non-empty t on a profile whose
\* tags hold t at most once, the returned profile's tags do not contain t
\* and a product exclusion on t does not match it; on any profile a
\* description is returned exactly when t was present before.
C26_RemoveTagRemoves ==
    \A k \in 1..Len(fx) :
       RemovesTag(k) =>
          LET out == Deref(heap, fx[k].out) IN
          /\ Occurrences(fx[k].before.tags[2], fx[k].effect.tag) <= 1 =>
                /\ ~ArrayIncludes(out.tags[2], fx[k].effect.tag)
                /\ ~HasExclusion(<<fx[k].effect.tag>>, out)
          /\ DescribedIffPresent(k)

\* removeTag of a tag the profile holds once, next to another tag: it is
\* gone from the returned profile and the removal is described
C26_Witness ==
    \E k \in 1..Len(fx) :
       /\ RemovesTag(k)
       /\ Occurrences(fx[k].before.tags[2], fx[k].effect.tag) = 1
       /\ Len(fx[k].before.tags[2]) = 2
       /\ ~ArrayIncludes(Deref(heap, fx[k].out).tags[2], fx[k].effect.tag)
       /\ fx[k].description = RemovedDescription(fx[k].effect.tag)

-----------------------------------------------------------------------------
(* C27 *)

\* the effect is a well-formed scoreDelta on the score named s
DeltaOn(e, s) ==
    /\ e.type = "scoreDelta"
    /\ Truthy(e.score)
    /\ e.delta[1] # "undef"
    /\ e.score[2] = s

RECURSIVE DeltaSumOfEffects(_, _)
\* the sum of the deltas of the well-formed scoreDelta effects on s in es
DeltaSumOfEffects(es, s) ==
    IF es = <<>> THEN 0
    ELSE (IF DeltaOn(Head(es), s) THEN Number(Head(es).delta)[2] ELSE 0)
         + DeltaSumOfEffects(Tail(es), s)

RECURSIVE DeltaSumOfFirings(_, _)
\* the same over the rules of the firings fs, each firing counted once
DeltaSumOfFirings(fs, s) ==
    IF fs = <<>> THEN 0
    ELSE DeltaSumOfEffects(Head(fs).rule.effects, s) + DeltaSumOfFirings(Tail(fs), s)

\* some recorded firing has a well-formed scoreDelta on s
NamedByAFiring(s) ==
    \E i \in 1..Len(firings) :
       \E j \in 1..Len(firings[i].rule.effects) : DeltaOn(firings[i].rule.effects[j], s)

\* C27: between rules and at the return of evaluateRules, every score s
\* named by a well-formed scoreDelta of a firing recorded in the trace is
\* the caller's scores[s] (0 if absent) plus the sum of those deltas, once
\* per firing; any other score has the caller's value, and is absent if it
\* was absent.
C27_ScoreConservation ==
    pc \in {"loop", "done"} =>
       LET initial == callSnap.scores[2]
           final == Deref(heap, currentProfile).scores[2]
       IN /\ Len(firings) = Len(trace)
          /\ \A i \in 1..Len(trace) : trace[i].ruleId = firings[i].rule.id
          /\ \A s \in {S_fs, S_hi, <<>>} \cup DOMAIN initial \cup DOMAIN final :
                IF NamedByAFiring(s)
                THEN /\ s \in DOMAIN final
                     /\ final[s] = Num(ScoreOr0(callSnap, s) + DeltaSumOfFirings(firings, s))
                ELSE /\ s \in DOMAIN final <=> s \in DOMAIN initial
                     /\ s \in DOMAIN initial => final[s] = initial[s]

\* a call that returned after two firings with a scoreDelta on the same
\* score, whose deltas differ, on a profile that lacks another score
C27_Witness ==
    /\ pc = "done"
    /\ Len(firings) >= 2
    /\ \E s \in DOMAIN callSnap.scores[2] :
          /\ \E i, j \in 1..Len(firings) :
                /\ i # j
                /\ DeltaSumOfEffects(firings[i].rule.effects, s) > 0
                /\ DeltaSumOfEffects(firings[j].rule.effects, s) < 0
          /\ Deref(heap, currentProfile).scores[2][s]
                = Num(callSnap.scores[2][s][2] + DeltaSumOfFirings(firings, s))
    /\ S_hi \notin DOMAIN callSnap.scores[2]
    /\ S_hi \notin DOMAIN Deref(heap, currentProfile).scores[2]

-----------------------------------------------------------------------------
(* C21 *)

\* C21: a second call of evaluateRules with the rules, profile and events
\* of the first, made after the first call, a recommend call and possibly
\* an applyEffect call on the first result, returns the trace of the first
\* call and a profile equal to the first in every field but last_updated;
\* and a second call of recommend with the catalogue and profile of the
\* first, made after all of these, returns the list the first returned.
C21_Determinism ==
    /\ (pc \in {"done", "compared"} /\ firstCall # <<>>) =>
          /\ trace = firstCall[1].trace
          /\ SameButLastUpdated(Deref(heap, currentProfile), firstCall[1].newProfile)
    /\ pc = "compared" => recommendations = firstCall[1].recommendations

\* both calls were made twice, with an applyEffect call in between; rules
\* fired, the two profiles returned differ in last_updated, and the
\* catalogue has a product shown and a product hidden
C21_Witness ==
    /\ pc = "compared"
    /\ fx # <<>>
    /\ fx[1].description # <<>>
    /\ firstCall[1].trace # <<>>
    /\ Len(trace) = 2
    /\ heap[currentProfile].last_updated # firstCall[1].newProfile.last_updated
    /\ \E i, j \in 1..Len(recommendations) :
          /\ recommendations[i].decision = "SHOWN"
          /\ recommendations[j].decision = "HIDDEN"

-----------------------------------------------------------------------------
(* Properties of the rules API                                              *)

\* the step leaves the content columns of rule id as they are
SameContent(id) == ContentOf(rulesTable'[id]) = ContentOf(rulesTable[id])

\* C28: no step of updateRule changes the content (name, priority, event,
\* conditions, effects, scopes, metadata) of a rule whose stored status
\* is ACTIVE, whatever the other session does in between; and updateRule
\* goes on past its status check only for a rule that is not ACTIVE (or
\* for an id that is no rule), the check itself writing neither the rule
\* nor an audit entry.
C28_ActiveNeverEdited ==
    [][ \A s \in DOMAIN calls :
           /\ updateRule(s) =>
                 \A id \in DOMAIN rulesTable :
                    rulesTable[id].status = "ACTIVE" => SameContent(id)
           /\ (updateRule(s) /\ calls[s].op = "idle") =>
                 /\ (calls'[s].op = "updateRule" /\ calls'[s].id \in DOMAIN rulesTable) =>
                       rulesTable[calls'[s].id].status # "ACTIVE"
                 /\ calls'[s].op = "idle" => calls'[s].pc = "threw"
                 /\ rulesTable' = rulesTable
                 /\ audit_logs' = audit_logs
      ]_vars

\* C29: a rule's stored status is the one the last statement that wrote it
\* gives: DRAFT after createRule, cloneRule and rollbackRule, INACTIVE
\* after disableRule, ACTIVE after publishRule and only then; updateRule
\* writes no status, so a rule no such statement touched since the
\* migration still has the status the migration gave it.
C29_Lifecycle ==
    \A id \in DOMAIN rulesTable :
       LET status == rulesTable[id].status
           last == lastStatusOp[id]
       IN /\ last \in {"createRule", "cloneRule", "rollbackRule"} => status = "DRAFT"
          /\ last = "disableRule" => status = "INACTIVE"
          /\ last = "migration" => status = SeedRules[id].status
          /\ (status = "ACTIVE" /\ last # "migration") => last = "publishRule"

\* a rule published, rolled back to a snapshot taken when it was ACTIVE
\* (it is DRAFT then) and published again: it is ACTIVE
C29_Witness ==
    \E id \in DOMAIN rulesTable :
       /\ rulesTable[id].status = "ACTIVE"
       /\ lastStatusOp[id] = "publishRule"
       /\ \E i \in 1..Len(audit_logs) :
             /\ audit_logs[i].entity_id = id
             /\ audit_logs[i].action = "ROLLBACK"
             /\ audit_logs[i].before_state[1].status = "ACTIVE"
             /\ audit_logs[i].after_state[1].status = "DRAFT"

\* no two rows of rule_versions carry the same rule_id and version
DistinctSnapshotVersions(versions) ==
    \A i, j \in 1..Len(versions) :
       (i # j /\ versions[i].rule_id = versions[j].rule_id)
          => versions[i].version # versions[j].version

\* C30: whatever calls are made and however two sessions interleave them,
\* no step makes a rule's version number smaller, and no two snapshots of
\* a rule in rule_versions carry the same version number.
C30_VersionsGrowSnapshotsDistinct ==
    [][ /\ \A id \in DOMAIN rulesTable \cap DOMAIN rulesTable' :
              rulesTable'[id].version >= rulesTable[id].version
        /\ DistinctSnapshotVersions(rule_versions')
      ]_vars

====
